---- MODULE Spec2Model ----
(***************************************************************************)
(* Model of coj::Popen (src/src/process.cpp): the child-process lifecycle  *)
(* controller and its Communicate orchestrator, together with the kernel   *)
(* objects it drives (three anonymous pipes, the child process).           *)
(*                                                                         *)
(* Threads: the controlling thread (pc), the stdin feeder (w_pc), the      *)
(* stdout and stderr drainers (r_pc) and the child.                         *)
(***************************************************************************)
EXTENDS Integers, Sequences, FiniteSets, TLC

----------------------------------------------------------------------------
(* Bounds of the model *)

MaxInput == 3   \* longest input handed to Communicate
PipeCap  == 1   \* capacity of a kernel pipe buffer
BUFSIZ   == 2   \* chunk size of the Communicate workers (scaled)
MaxCalls == 2   \* number of API calls the caller issues
MaxTimeout == 1 \* longest deadline, in 10ms sleep ticks
Grace    == 1   \* the grace wait of the destructor, in 10ms sleep ticks (scaled)
MaxCmd   == 2   \* longest command string handed to the constructor
BUF_SIZE == 2   \* PIPE_BUF, the largest atomic write to a pipe (scaled)
EINTR_RETRY_LIMIT == 1   \* retries of an interrupted syscall (scaled from 100)
SizeBits == 3   \* width of size_type in bits (scaled from 64)
MaxData  == 2   \* longest buffer handed to a pipe Write
MaxSent  == 3   \* bytes the process at the other end of a pipe writes into it
MaxWriters == 2 \* threads that call WriteAll on one write-end at the same time

Min(a, b) == IF a < b THEN a ELSE b

SIGKILL == 9
SIGTERM == 15

\* the inputs handed to Communicate: every length up to MaxInput, the bytes
\* pairwise distinct so that a lost, repeated or displaced byte shows
Inputs == {[i \in 1..n |-> i] : n \in 0..MaxInput}

\* absent deadline
NoTimeout == -1
Timeouts == {NoTimeout} \cup (0..MaxTimeout)

\* what the "emit" child writes: one byte more than a pipe buffer holds
OutData == [i \in 1..(PipeCap + 1) |-> i]
ErrData == [i \in 1..(PipeCap + 1) |-> 0 - i]

\* exit statuses an "emit" child may pass to exit()
ExitStatuses == {0, 255}

\* std::optional<int>
Nullopt == [has_value |-> FALSE, value |-> 0]
Some(v) == [has_value |-> TRUE, value |-> v]

\* values an uninitialised size_type may hold
Indeterminate == {0, MaxInput + 1}

VARIABLES
    \* --- Popen fields ---
    in_opt, out_opt, err_opt,   \* std_in_.option, std_out_.option, std_err_.option
    pipe_writer,                \* std_in_.pipe_writer != nullptr
    pipe_reader,                \* std_out_.pipe_reader, std_err_.pipe_reader != nullptr
    eof,                        \* feof flag of the parent-side read streams
    returncode_,                \* std::optional<int>
    usage_,                     \* usage_.has_value()
    cache_,                     \* IPCResult cache_
    \* --- kernel / child ---
    child,                      \* "running", "zombie", "reaped"
    behav,                      \* the program the child runs
    status,                     \* wait status of the zombie
    disposition,                \* how the child ended: <<"exit", s>> or <<"signal", n>>
    pending,                    \* signal sent to the child and not yet delivered (0: none)
    in_buf,                     \* content of the stdin pipe
    buf,                        \* content of the stdout and stderr pipes
    emit_out, emit_err,         \* bytes of OutData / ErrData the child has written
    \* --- Communicate locals and workers ---
    input, is_expired,
    w_pc, w_bw, w_off,          \* stdin feeder: position, bytes_written, bytes of the chunk in the pipe
    r_pc, r_chunk,              \* stdout / stderr drainer: position, buffer of the Read in progress
    \* --- controlling thread ---
    pc, timeout, elapsed, calls, ret,
    op,                         \* the API call entered last
    \* --- observation ---
    accepted,                   \* input bytes of this Communicate the stdin pipe accepted
    child_wrote,                \* every byte the child wrote to the stdout / stderr channel
    stored_at_entry,            \* returncode_ held a value when the last API call was entered
    wait4_after_reap,           \* a wait4 was issued on the pid after the reap
    kills,                      \* kill syscalls issued: the set of signals sent
    kill_after_reap             \* a kill was issued on the pid after the reap

popen_vars  == <<in_opt, out_opt, err_opt, pipe_writer, pipe_reader, eof,
                 returncode_, usage_, cache_>>
kernel_vars == <<child, behav, status, disposition, pending, in_buf, buf,
                 emit_out, emit_err>>
worker_vars == <<input, is_expired, w_pc, w_bw, w_off, r_pc, r_chunk>>
main_vars   == <<pc, timeout, elapsed, calls, ret, op>>
obs_vars    == <<accepted, child_wrote, stored_at_entry, wait4_after_reap, kills,
                 kill_after_reap>>

VARIABLES
    \* --- the caller ---
    budget,                     \* number of API calls the caller issues on this controller
    \* --- the operating system ---
    os_fails,                   \* the syscalls on the child's pid that fail at present: "wait4", "kill"
    \* --- a construction: Popen(args, std_in, std_out, std_err) ---
    ctor_args,                  \* the command string and the three redirection arguments
    ctor_pc,                    \* "args": the arguments are being built, "body", "done"
    ctor_built,                 \* the redirection arguments constructed so far
    ctor_ret,                   \* how the construction ended
    spawned,                    \* posix_spawnp has created a child
    parent_fds,                 \* the endpoints of the three arguments the parent holds open
    child_fds,                  \* the descriptor table of the spawned child: <<slot, what it refers to>>
    \* --- an anonymous pipe and its two endpoints (pipe.cpp) ---
    fifo,                       \* the bytes the kernel holds in the pipe
    sent,                       \* every byte ever placed in the pipe, in order
    w_open, r_open,             \* the write-end / read-end is open
    cancel,                     \* *is_expired: the cancel token handed to ReadAll
    signals,                    \* signals that may still interrupt a syscall
    peer,                       \* what the process at the other end does: "writes", "reads", "none"
    faulty,                     \* read(2) on the read-end can fail with EIO
    threads,                    \* the threads that call WriteAll on one write-end at the same time
    mutex,                      \* PipeOwner::mutex_ of that write-end: the thread that holds it, or 0
    rd_threads,                 \* the threads that call Read on one read-end at the same time
    rd_mutex,                   \* PipeOwner::mutex_ of that read-end: the thread that holds it, or 0
    reader,                     \* the thread that calls Read / ReadAll
    writer                      \* the thread that calls Write

ctor_vars == <<ctor_args, ctor_pc, ctor_built, ctor_ret, spawned, parent_fds, child_fds>>

pipe_kernel == <<fifo, sent, w_open, r_open>>
pipe_env == <<peer, faulty, threads, mutex, rd_threads, rd_mutex>>
pipe_vars == <<pipe_kernel, cancel, signals, pipe_env, reader, writer>>

VARIABLES
    \* --- the two descriptors of a pipe and the endpoints that own them (PipeOwner) ---
    owner,                      \* per endpoint: "none", "alive", "gone", or its constructor threw: "bad_fd" (F_GETFL), "failed" (F_SETFL)
    fd_,                        \* per endpoint: PipeOwner::fd_, <<n>> when it points to the int n, <<>> when null
    open_files,                 \* the descriptor table of the process: what each number refers to
    closed,                     \* per endpoint: what the close(2) calls of its deleter closed, in order
    handle                      \* per endpoint: its std::unique_ptr handles, "null", "owns" or "destroyed"

owner_vars == <<owner, fd_, open_files, closed, handle>>

\* what the actions of the controller, its workers and its child leave alone
aux_vars == <<budget, os_fails, ctor_vars, pipe_vars, owner_vars>>

vars == <<popen_vars, kernel_vars, worker_vars, main_vars, obs_vars, aux_vars>>

----------------------------------------------------------------------------
(* Results handed to the caller *)

NoBytes == <<>>

Outcome(kind, code, bw, out, err) ==
    [kind |-> kind, code |-> code, bytes_written |-> bw,
     stdout_data |-> out, stderr_data |-> err]

NoOutcome == Outcome("none", Nullopt, 0, NoBytes, NoBytes)
Returned(code) == Outcome("return", code, 0, NoBytes, NoBytes)
Raised(kind) == Outcome(kind, Nullopt, 0, NoBytes, NoBytes)

----------------------------------------------------------------------------
(* Construction *)

\* the two output channels of the child
Channels == {"out", "err"}

\* std_out_.option, std_err_.option
Option(s) == IF s = "out" THEN out_opt ELSE err_opt

\* the programs run and the redirections they are run with: every accepted
\* choice of NONE/PIPE (and STDOUT for stderr); the program that never reads
\* its stdin is given a stdin pipe only with its outputs inherited, and
\* stderr is merged into stdout only for the program that writes to stderr
Setups ==
    {c \in {"cat", "emit", "stall"} \X {"NONE", "PIPE"} \X {"NONE", "PIPE"}
            \X {"NONE", "PIPE", "STDOUT"} :
        /\ (c[1] = "emit" /\ c[2] = "PIPE") => (c[3] = "NONE" /\ c[4] = "NONE")
        /\ c[4] = "STDOUT" => c[1] = "emit"}

\* Popen::Popen after a successful spawn: the parent keeps the write-end of
\* the stdin pipe and the read-ends of the output pipes.
Constructed ==
    /\ \E c \in Setups :
          behav = c[1] /\ in_opt = c[2] /\ out_opt = c[3] /\ err_opt = c[4]
    /\ pipe_writer = (in_opt = "PIPE")
    /\ pipe_reader = [s \in Channels |-> Option(s) = "PIPE"]
    /\ eof = [s \in Channels |-> FALSE]
    /\ returncode_ = Nullopt
    /\ usage_ = FALSE
    /\ \E g \in Indeterminate :
          cache_ = [bytes_written |-> g, stdout_data |-> NoBytes, stderr_data |-> NoBytes]
    /\ child = "running"
    /\ status = 0
    /\ disposition = <<"none", 0>>
    /\ pending = 0
    /\ in_buf = NoBytes
    /\ buf = [s \in Channels |-> NoBytes]
    /\ emit_out = 0 /\ emit_err = 0
    /\ input = NoBytes /\ is_expired = FALSE
    /\ w_pc = "none" /\ w_bw = 0 /\ w_off = 0
    /\ r_pc = [s \in Channels |-> "none"]
    /\ r_chunk = [s \in Channels |-> NoBytes]
    /\ pc = "idle" /\ timeout = NoTimeout /\ elapsed = 0 /\ calls = 0
    /\ ret = NoOutcome
    /\ op = "none"
    /\ accepted = 0
    /\ child_wrote = [s \in Channels |-> NoBytes]
    /\ stored_at_entry = FALSE
    /\ wait4_after_reap = FALSE
    /\ kills = {}
    /\ kill_after_reap = FALSE

\* no construction is being followed
CtorIdle ==
    /\ ctor_args = [cmd |-> <<"a">>, in |-> <<"NONE", FALSE>>,
                    out |-> <<"NONE", FALSE>>, err |-> <<"NONE", FALSE>>]
    /\ ctor_pc = "done"
    /\ ctor_built = {}
    /\ ctor_ret = "constructed"
    /\ spawned = TRUE
    /\ parent_fds = {}
    /\ child_fds = {}

\* ReadResult / WriteResult
ReadResult(d, e) == [data |-> d, error |-> e]
WriteResult(n, e) == [bytes_written |-> n, error |-> e]

\* the reader thread outside any call, with n calls left: the call it is in
\* (op, size, token: is_expired != nullptr), the locals of Read
\* (total_bytes, eintr_cnt, data, error), the result ReadAll accumulates,
\* the value the last call returned, and what the call did to the kernel
\* (got: the bytes it took out of the pipe, issued: it issued a read(2))
ReaderIdle(n) ==
    [pc |-> "idle", op |-> "none", size |-> 0, token |-> FALSE,
     total_bytes |-> 0, eintr_cnt |-> 0, data |-> <<>>, error |-> "Ok",
     result |-> ReadResult(<<>>, "Ok"), ret |-> ReadResult(<<>>, "Ok"),
     got |-> <<>>, issued |-> FALSE, left |-> n]

\* the writer thread outside any call, with n calls left: the arguments of
\* the call it is in, the locals of Write, the value the last call
\* returned, what the call was asked (out_of_range: offset + size exceeds
\* the length of data; zero_size: size is 0 and offset lies within data) and
\* what it did to the kernel (put: the bytes it placed in the pipe, issued:
\* it issued a write(2)); for WriteAll, its arguments (all_data, all_offset,
\* token: is_expired != nullptr) and the result it accumulates
WriterIdle(n) ==
    [pc |-> "idle", op |-> "none", data |-> <<>>, offset |-> 0, size |-> 0,
     total_bytes |-> 0, eintr_cnt |-> 0, error |-> "Ok",
     all_data |-> <<>>, all_offset |-> 0, token |-> FALSE,
     result |-> WriteResult(0, "Ok"),
     ret |-> WriteResult(0, "Ok"),
     out_of_range |-> FALSE, zero_size |-> FALSE,
     put |-> <<>>, issued |-> FALSE, left |-> n]

\* the two endpoints of a pipe, the descriptor numbers pipe(2) gave them,
\* and the handles that can own an endpoint
Ends == {"read_pipe", "write_pipe"}
Descriptors == {0, 1}
Handles == {1, 2}

\* no endpoint is being followed
OwnerIdle ==
    /\ owner = [e \in Ends |-> "none"]
    /\ fd_ = [e \in Ends |-> <<>>]
    /\ open_files = [n \in Descriptors |-> "free"]
    /\ closed = [e \in Ends |-> <<>>]
    /\ handle = [e \in Ends |-> [h \in Handles |-> "null"]]

\* the threads that share one write-end
Writers == 1..MaxWriters

\* the threads that share one read-end
Readers == Writers

\* no thread shares a write-end or a read-end
NoThreads ==
    /\ threads = [t \in Writers |-> WriterIdle(0)]
    /\ mutex = 0
    /\ rd_threads = [t \in Readers |-> ReaderIdle(0)]
    /\ rd_mutex = 0

\* no pipe is being followed
PipeIdle ==
    /\ fifo = <<>> /\ sent = <<>>
    /\ w_open = FALSE /\ r_open = FALSE
    /\ cancel = FALSE
    /\ signals = 0
    /\ peer = "none"
    /\ faulty = FALSE
    /\ NoThreads
    /\ reader = ReaderIdle(0)
    /\ writer = WriterIdle(0)

\* a freshly constructed controller whose caller issues MaxCalls API calls
Init ==
    /\ Constructed
    /\ budget = MaxCalls
    /\ os_fails = {}
    /\ CtorIdle
    /\ PipeIdle
    /\ OwnerIdle

----------------------------------------------------------------------------
(* Exit disposition *)

\* the wait status the kernel reports for exit(s)
ExitedStatus(s) == (s % 256) * 256
\* the wait status the kernel reports for death by signal n
SignaledStatus(n, core) == n + (IF core THEN 128 ELSE 0)

\* set_returncode with the sign of the signal number lost
set_returncode_Unsigned(st) ==
    LET WTERMSIG    == st % 128
        WIFSIGNALED == WTERMSIG # 0 /\ WTERMSIG # 127
        WIFEXITED   == WTERMSIG = 0
        WEXITSTATUS == (st \div 256) % 256
    IN  IF WIFSIGNALED THEN Some(WTERMSIG)
        ELSE IF WIFEXITED THEN Some(WEXITSTATUS)
        ELSE Nullopt

\* Popen::set_returncode: the value stored in returncode_; Nullopt when it
\* throws (status neither signalled nor exited) and stores nothing.
set_returncode(st) ==
    LET WTERMSIG    == st % 128
        WIFSIGNALED == WTERMSIG # 0 /\ WTERMSIG # 127
        WIFEXITED   == WTERMSIG = 0
        WEXITSTATUS == (st \div 256) % 256
    IN  IF WIFSIGNALED THEN Some(0 - WTERMSIG)
        ELSE IF WIFEXITED THEN Some(WEXITSTATUS)
        ELSE Nullopt

\* Popen::returncode
returncode == returncode_

----------------------------------------------------------------------------
(* Poll, Wait, SendSignal *)

\* Poll without the early return on a stored exit code
Poll_AlwaysWait4 ==
    IF child = "reaped"
    THEN [wait4 |-> TRUE, throws |-> TRUE, reaps |-> FALSE,
          rc |-> returncode_, usage |-> usage_, value |-> Nullopt]
    ELSE IF child = "zombie"
    THEN [wait4 |-> TRUE, throws |-> FALSE, reaps |-> TRUE,
          rc |-> set_returncode(status), usage |-> TRUE,
          value |-> set_returncode(status)]
    ELSE [wait4 |-> TRUE, throws |-> FALSE, reaps |-> FALSE,
          rc |-> returncode_, usage |-> usage_, value |-> returncode]

\* Popen::Poll as a function of the current state: whether wait4 is issued,
\* whether it throws, the fields after the call and the value returned.
Poll ==
    IF returncode_.has_value
    THEN [wait4 |-> FALSE, throws |-> FALSE, reaps |-> FALSE,
          rc |-> returncode_, usage |-> usage_, value |-> returncode]
    ELSE IF child = "reaped" \/ "wait4" \in os_fails
    THEN \* wait4 returns -1 (ECHILD)
         [wait4 |-> TRUE, throws |-> TRUE, reaps |-> FALSE,
          rc |-> returncode_, usage |-> usage_, value |-> Nullopt]
    ELSE IF child = "zombie"
    THEN \* wait4 returns pid_
         IF set_returncode(status).has_value
         THEN [wait4 |-> TRUE, throws |-> FALSE, reaps |-> TRUE,
               rc |-> set_returncode(status), usage |-> TRUE,
               value |-> set_returncode(status)]
         ELSE [wait4 |-> TRUE, throws |-> TRUE, reaps |-> TRUE,
               rc |-> returncode_, usage |-> usage_, value |-> Nullopt]
    ELSE \* wait4 returns 0: the child is still running
         [wait4 |-> TRUE, throws |-> FALSE, reaps |-> FALSE,
          rc |-> returncode_, usage |-> usage_, value |-> returncode]

\* a Poll that stores the exit code and not the resource usage
ApplyPoll_NoUsage ==
    /\ returncode_' = Poll.rc
    /\ usage_' = usage_
    /\ child' = IF Poll.reaps THEN "reaped" ELSE child
    /\ wait4_after_reap' = (wait4_after_reap \/ (Poll.wait4 /\ child = "reaped"))

\* the effect of one Poll call on the controller and the kernel
ApplyPoll ==
    /\ returncode_' = Poll.rc
    /\ usage_' = Poll.usage
    /\ child' = IF Poll.reaps THEN "reaped" ELSE child
    /\ wait4_after_reap' = (wait4_after_reap \/ (Poll.wait4 /\ child = "reaped"))

\* one iteration of the loop of Popen::Wait: the deadline test, then Poll
WaitOutcome ==
    IF timeout # NoTimeout /\ ~(elapsed < timeout) THEN "timeout"
    ELSE IF Poll.throws THEN "error"
    ELSE IF Poll.value.has_value THEN "return"
    ELSE "sleep"

\* an iteration that polls once more when the deadline has passed, and
\* raises Timeout whatever that Poll finds
WaitIteration_PollOnTimeout ==
    /\ ApplyPoll
    /\ elapsed' = IF WaitOutcome = "sleep" /\ timeout # NoTimeout
                  THEN elapsed + 1
                  ELSE IF pc = "Wait" THEN 0 ELSE elapsed

\* the state changes of one iteration of Wait other than its continuation
WaitIteration ==
    /\ IF WaitOutcome = "timeout"
       THEN UNCHANGED <<returncode_, usage_, child, wait4_after_reap>>
       ELSE ApplyPoll
    /\ elapsed' = IF WaitOutcome = "sleep" /\ timeout # NoTimeout
                  THEN elapsed + 1
                  ELSE IF pc = "Wait" THEN 0 ELSE elapsed

CallPoll ==
    /\ pc = "idle" /\ calls < budget
    /\ ApplyPoll
    /\ op' = "Poll"
    /\ stored_at_entry' = returncode_.has_value
    /\ ret' = IF Poll.throws THEN Raised("OSError") ELSE Returned(Poll.value)
    /\ calls' = calls + 1
    /\ UNCHANGED <<in_opt, out_opt, err_opt, pipe_writer, pipe_reader, eof, cache_>>
    /\ UNCHANGED <<behav, status, disposition, pending, in_buf, buf, emit_out, emit_err>>
    /\ UNCHANGED worker_vars
    /\ UNCHANGED <<pc, timeout, elapsed>>
    /\ UNCHANGED <<accepted, child_wrote, kills, kill_after_reap>>
    /\ UNCHANGED aux_vars

\* Popen::Wait is entered
CallWait(t) ==
    /\ pc = "idle" /\ calls < budget
    /\ pc' = "Wait"
    /\ op' = "Wait"
    /\ timeout' = t
    /\ elapsed' = 0
    /\ calls' = calls + 1
    /\ ret' = NoOutcome
    /\ stored_at_entry' = returncode_.has_value
    /\ UNCHANGED <<popen_vars, kernel_vars, worker_vars>>
    /\ UNCHANGED <<accepted, child_wrote, wait4_after_reap, kills, kill_after_reap>>
    /\ UNCHANGED aux_vars

\* one iteration of the loop of a Wait called by the caller
Wait ==
    /\ pc = "Wait"
    /\ WaitIteration
    /\ pc' = IF WaitOutcome = "sleep" THEN "Wait" ELSE "idle"
    /\ ret' = CASE WaitOutcome = "timeout" -> Raised("Timeout")
                [] WaitOutcome = "error"   -> Raised("OSError")
                [] WaitOutcome = "return"  -> Returned(Poll.value)
                [] OTHER                   -> ret
    /\ UNCHANGED <<in_opt, out_opt, err_opt, pipe_writer, pipe_reader, eof, cache_>>
    /\ UNCHANGED <<behav, status, disposition, pending, in_buf, buf, emit_out, emit_err>>
    /\ UNCHANGED worker_vars
    /\ UNCHANGED <<timeout, calls, op>>
    /\ UNCHANGED <<accepted, child_wrote, stored_at_entry, kills, kill_after_reap>>
    /\ UNCHANGED aux_vars

\* SendSignal without the test of the stored exit code
SendSignalOutcome_Unguarded(sig) ==
    [kill |-> TRUE, throws |-> (child = "reaped")]

\* Popen::SendSignal as a function of the current state: whether kill is
\* issued and whether the call throws (kill returns -1: no such process).
SendSignalOutcome(sig) ==
    IF ~returncode.has_value
    THEN [kill |-> TRUE, throws |-> (child = "reaped" \/ "kill" \in os_fails)]
    ELSE [kill |-> FALSE, throws |-> FALSE]

\* the effect of the body of SendSignal(sig) on the kernel
ApplySendSignal(sig) ==
    IF SendSignalOutcome(sig).kill
    THEN /\ kills' = kills \cup {sig}
         /\ kill_after_reap' = (kill_after_reap \/ child = "reaped")
         /\ pending' = IF /\ child = "running" /\ "kill" \notin os_fails
                          /\ (pending = 0 \/ sig = SIGKILL)
                       THEN sig ELSE pending
    ELSE UNCHANGED <<kills, kill_after_reap, pending>>

SendSignal(sig) ==
    /\ pc = "idle" /\ calls < budget
    /\ calls' = calls + 1
    /\ op' = "SendSignal"
    /\ ApplySendSignal(sig)
    /\ ret' = IF SendSignalOutcome(sig).throws THEN Raised("OSError")
              ELSE Returned(Nullopt)
    /\ UNCHANGED popen_vars
    /\ UNCHANGED <<child, behav, status, disposition, in_buf, buf, emit_out, emit_err>>
    /\ UNCHANGED worker_vars
    /\ UNCHANGED <<pc, timeout, elapsed>>
    /\ stored_at_entry' = returncode_.has_value
    /\ UNCHANGED <<accepted, child_wrote, wait4_after_reap>>
    /\ UNCHANGED aux_vars

Terminate == SendSignal(SIGTERM)
Kill == SendSignal(SIGKILL)

----------------------------------------------------------------------------
(* Popen::~Popen *)

\* the destructor is entered: if (!Poll()).  An exception of this Poll is
\* outside every try block and leaves the destructor.
Destroy ==
    /\ pc = "idle"
    /\ op' = "~Popen"
    /\ stored_at_entry' = returncode_.has_value
    /\ ApplyPoll
    /\ pc' = IF Poll.throws THEN "terminate"
             ELSE IF Poll.value.has_value THEN "destroyed"
             ELSE "dtor_Terminate"
    /\ ret' = IF Poll.throws THEN Raised("OSError") ELSE NoOutcome
    /\ UNCHANGED <<in_opt, out_opt, err_opt, pipe_writer, pipe_reader, eof, cache_>>
    /\ UNCHANGED <<behav, status, disposition, pending, in_buf, buf, emit_out, emit_err>>
    /\ UNCHANGED worker_vars
    /\ UNCHANGED <<timeout, elapsed, calls>>
    /\ UNCHANGED <<accepted, child_wrote, kills, kill_after_reap>>
    /\ UNCHANGED aux_vars

\* Terminate(), outside every try block; then Wait(Seconds(5.0)) is entered
DtorTerminate ==
    /\ pc = "dtor_Terminate"
    /\ ApplySendSignal(SIGTERM)
    /\ IF SendSignalOutcome(SIGTERM).throws
       THEN /\ pc' = "terminate"
            /\ ret' = Raised("OSError")
            /\ UNCHANGED <<timeout, elapsed>>
       ELSE /\ pc' = "dtor_Wait"
            /\ timeout' = Grace
            /\ elapsed' = 0
            /\ UNCHANGED ret
    /\ UNCHANGED popen_vars
    /\ UNCHANGED <<child, behav, status, disposition, in_buf, buf, emit_out, emit_err>>
    /\ UNCHANGED worker_vars
    /\ UNCHANGED <<calls, op>>
    /\ UNCHANGED <<accepted, child_wrote, stored_at_entry, wait4_after_reap>>
    /\ UNCHANGED aux_vars

\* a grace Wait after which Kill is called however the Wait ended
DtorWait_KillAlways ==
    /\ pc = "dtor_Wait"
    /\ WaitIteration
    /\ pc' = IF WaitOutcome = "sleep" THEN "dtor_Wait" ELSE "dtor_Kill"
    /\ UNCHANGED <<in_opt, out_opt, err_opt, pipe_writer, pipe_reader, eof, cache_>>
    /\ UNCHANGED <<behav, status, disposition, pending, in_buf, buf, emit_out, emit_err>>
    /\ UNCHANGED worker_vars
    /\ UNCHANGED <<timeout, calls, ret, op>>
    /\ UNCHANGED <<accepted, child_wrote, stored_at_entry, kills, kill_after_reap>>
    /\ UNCHANGED aux_vars

\* one iteration of the loop of the grace Wait; TimeoutExpired leads to the
\* Kill of the handler, any other exception is logged
DtorWait ==
    /\ pc = "dtor_Wait"
    /\ WaitIteration
    /\ pc' = CASE WaitOutcome = "timeout" -> "dtor_Kill"
               [] WaitOutcome = "sleep"   -> "dtor_Wait"
               [] OTHER                   -> "destroyed"
    /\ UNCHANGED <<in_opt, out_opt, err_opt, pipe_writer, pipe_reader, eof, cache_>>
    /\ UNCHANGED <<behav, status, disposition, pending, in_buf, buf, emit_out, emit_err>>
    /\ UNCHANGED worker_vars
    /\ UNCHANGED <<timeout, calls, ret, op>>
    /\ UNCHANGED <<accepted, child_wrote, stored_at_entry, kills, kill_after_reap>>
    /\ UNCHANGED aux_vars

\* Kill() in the handler of TimeoutExpired; its exception is logged
DtorKill ==
    /\ pc = "dtor_Kill"
    /\ ApplySendSignal(SIGKILL)
    /\ pc' = "destroyed"
    /\ UNCHANGED popen_vars
    /\ UNCHANGED <<child, behav, status, disposition, in_buf, buf, emit_out, emit_err>>
    /\ UNCHANGED worker_vars
    /\ UNCHANGED <<timeout, elapsed, calls, ret, op>>
    /\ UNCHANGED <<accepted, child_wrote, stored_at_entry, wait4_after_reap>>
    /\ UNCHANGED aux_vars

----------------------------------------------------------------------------
(* The child process and the kernel pipes *)

\* the channel the child's file descriptor fd is wired to by the spawn
\* file actions: stderr follows stdout when std_err is STDOUT
Dest(fd) == IF fd = "err" /\ err_opt = "STDOUT" THEN "out" ELSE fd

\* the number of bytes, of n, that a write to channel ch moves before it
\* blocks: what the pipe has room for
Room(ch, n) == IF Option(ch) = "PIPE" THEN Min(n, PipeCap - Len(buf[ch])) ELSE n

\* the child writes the bytes bs to its file descriptor fd
ChildWrite(fd, bs) ==
    /\ buf' = IF Option(Dest(fd)) = "PIPE"
              THEN [buf EXCEPT ![Dest(fd)] = @ \o bs]
              ELSE buf
    /\ child_wrote' = [child_wrote EXCEPT ![Dest(fd)] = @ \o bs]

\* the child terminates with wait status st: it becomes a zombie and the
\* kernel closes its pipe ends
ChildDies(st, disp) ==
    /\ child' = "zombie"
    /\ status' = st
    /\ disposition' = disp
    /\ pending' = 0
    /\ in_buf' = NoBytes

\* cat: copy from stdin to stdout what stdin holds and stdout has room for
CatCopy ==
    /\ child = "running" /\ behav = "cat"
    /\ in_opt = "PIPE" /\ in_buf # NoBytes
    /\ Room("out", Len(in_buf)) > 0
    /\ LET k == Room("out", Len(in_buf))
       IN  /\ in_buf' = SubSeq(in_buf, k + 1, Len(in_buf))
           /\ ChildWrite("out", SubSeq(in_buf, 1, k))
    /\ UNCHANGED <<child, behav, status, disposition, pending, emit_out, emit_err>>
    /\ UNCHANGED <<popen_vars, worker_vars, main_vars>>
    /\ UNCHANGED <<accepted, stored_at_entry, wait4_after_reap, kills, kill_after_reap>>
    /\ UNCHANGED aux_vars

\* cat: end of file on stdin (every write-end closed and the pipe drained;
\* an inherited stdin is taken to be at end of file), exit(0)
CatExit ==
    /\ child = "running" /\ behav = "cat"
    /\ in_opt = "PIPE" => (in_buf = NoBytes /\ ~pipe_writer)
    /\ ChildDies(ExitedStatus(0), <<"exit", 0>>)
    /\ UNCHANGED <<behav, buf, emit_out, emit_err>>
    /\ UNCHANGED <<popen_vars, worker_vars, main_vars, obs_vars>>
    /\ UNCHANGED aux_vars

\* emit (a program that never reads its stdin): write to stdout the rest of
\* OutData, as far as there is room
EmitOut ==
    /\ child = "running" /\ behav = "emit"
    /\ emit_out < Len(OutData)
    /\ Room(Dest("out"), Len(OutData) - emit_out) > 0
    /\ LET k == Room(Dest("out"), Len(OutData) - emit_out)
       IN  /\ ChildWrite("out", SubSeq(OutData, emit_out + 1, emit_out + k))
           /\ emit_out' = emit_out + k
    /\ UNCHANGED <<child, behav, status, disposition, pending, in_buf, emit_err>>
    /\ UNCHANGED <<popen_vars, worker_vars, main_vars>>
    /\ UNCHANGED <<accepted, stored_at_entry, wait4_after_reap, kills, kill_after_reap>>
    /\ UNCHANGED aux_vars

\* emit: write to stderr the rest of ErrData, as far as there is room
EmitErr ==
    /\ child = "running" /\ behav = "emit"
    /\ emit_err < Len(ErrData)
    /\ Room(Dest("err"), Len(ErrData) - emit_err) > 0
    /\ LET k == Room(Dest("err"), Len(ErrData) - emit_err)
       IN  /\ ChildWrite("err", SubSeq(ErrData, emit_err + 1, emit_err + k))
           /\ emit_err' = emit_err + k
    /\ UNCHANGED <<child, behav, status, disposition, pending, in_buf, emit_out>>
    /\ UNCHANGED <<popen_vars, worker_vars, main_vars>>
    /\ UNCHANGED <<accepted, stored_at_entry, wait4_after_reap, kills, kill_after_reap>>
    /\ UNCHANGED aux_vars

\* emit: everything written, exit(s)
EmitExit(s) ==
    /\ child = "running" /\ behav = "emit"
    /\ emit_out = Len(OutData) /\ emit_err = Len(ErrData)
    /\ ChildDies(ExitedStatus(s), <<"exit", s>>)
    /\ UNCHANGED <<behav, buf, emit_out, emit_err>>
    /\ UNCHANGED <<popen_vars, worker_vars, main_vars, obs_vars>>
    /\ UNCHANGED aux_vars

\* emit: the child crashes (signal 11, core dumped) before it has written
\* everything
EmitCrash ==
    /\ child = "running" /\ behav = "emit"
    /\ emit_out < Len(OutData)
    /\ ChildDies(SignaledStatus(11, TRUE), <<"signal", 11>>)
    /\ UNCHANGED <<behav, buf, emit_out, emit_err>>
    /\ UNCHANGED <<popen_vars, worker_vars, main_vars, obs_vars>>
    /\ UNCHANGED aux_vars

\* a signal sent with kill is delivered: the default action of SIGTERM and
\* SIGKILL terminates the child
Deliver ==
    /\ child = "running" /\ pending # 0
    /\ ChildDies(SignaledStatus(pending, FALSE), <<"signal", pending>>)
    /\ UNCHANGED <<behav, buf, emit_out, emit_err>>
    /\ UNCHANGED <<popen_vars, worker_vars, main_vars, obs_vars>>
    /\ UNCHANGED aux_vars

----------------------------------------------------------------------------
(* Communicate: the controlling thread *)

EmptyCache == [bytes_written |-> 0, stdout_data |-> NoBytes, stderr_data |-> NoBytes]

\* the workers and the Wait of Communicate are started
StartWorkers(inp, t) ==
    /\ ret' = NoOutcome
    /\ pc' = "Communicate_Wait"
    /\ timeout' = t
    /\ elapsed' = 0
    /\ input' = inp
    /\ is_expired' = FALSE
    /\ w_pc' = IF inp # NoBytes THEN "head" ELSE "none"
    /\ w_bw' = 0
    /\ w_off' = 0
    /\ r_pc' = [s \in Channels |-> IF pipe_reader[s] THEN "head" ELSE "none"]
    /\ r_chunk' = [s \in Channels |-> NoBytes]
    /\ accepted' = 0

\* a Communicate that does not test the stdin writer
Communicate_NoCheck(inp, t) ==
    /\ pc = "idle" /\ calls < budget
    /\ calls' = calls + 1
    /\ op' = "Communicate"
    /\ stored_at_entry' = returncode_.has_value
    /\ StartWorkers(inp, t)
    /\ UNCHANGED <<popen_vars, kernel_vars>>
    /\ UNCHANGED <<child_wrote, wait4_after_reap, kills, kill_after_reap>>
    /\ UNCHANGED aux_vars

\* Communicate is entered: the stdin check, then the three workers start
Communicate(inp, t) ==
    /\ pc = "idle" /\ calls < budget
    /\ calls' = calls + 1
    /\ op' = "Communicate"
    /\ stored_at_entry' = returncode_.has_value
    /\ IF inp # NoBytes /\ ~pipe_writer
       THEN /\ ret' = Raised("InvalidArg")
            /\ input' = inp
            /\ UNCHANGED <<pc, timeout, elapsed>>
            /\ UNCHANGED <<is_expired, w_pc, w_bw, w_off, r_pc, r_chunk, accepted>>
       ELSE StartWorkers(inp, t)
    /\ UNCHANGED <<popen_vars, kernel_vars>>
    /\ UNCHANGED <<child_wrote, wait4_after_reap, kills, kill_after_reap>>
    /\ UNCHANGED aux_vars

\* one iteration of the loop of the Wait(timeout) called by Communicate
CommunicateWait ==
    /\ pc = "Communicate_Wait"
    /\ WaitIteration
    /\ pc' = CASE WaitOutcome = "timeout" -> "Communicate_catch"
               [] WaitOutcome = "sleep"   -> "Communicate_Wait"
               [] OTHER                   -> "Communicate_join"
    /\ ret' = IF WaitOutcome = "error" THEN Raised("OSError") ELSE ret
    /\ UNCHANGED <<in_opt, out_opt, err_opt, pipe_writer, pipe_reader, eof, cache_>>
    /\ UNCHANGED <<behav, status, disposition, pending, in_buf, buf, emit_out, emit_err>>
    /\ UNCHANGED worker_vars
    /\ UNCHANGED <<timeout, calls, op>>
    /\ UNCHANGED <<accepted, child_wrote, stored_at_entry, kills, kill_after_reap>>
    /\ UNCHANGED aux_vars

\* catch (const TimeoutExpired&): is_expired.store(true)
CommunicateCatch ==
    /\ pc = "Communicate_catch"
    /\ is_expired' = TRUE
    /\ pc' = "Communicate_join"
    /\ UNCHANGED <<input, w_pc, w_bw, w_off, r_pc, r_chunk>>
    /\ UNCHANGED <<timeout, elapsed, calls, ret, op>>
    /\ UNCHANGED <<popen_vars, kernel_vars, obs_vars>>
    /\ UNCHANGED aux_vars

\* a wait() that returns although the worker is still running
Joined_Always(f) == TRUE

\* future.valid() is false or future.wait() has returned
Joined(f) == f \in {"none", "done", "threw"}

\* only the stdin feeder is waited for
AllJoined_FeederOnly == Joined(w_pc)

\* the three wait() calls on the worker futures have returned
AllJoined == Joined(w_pc) /\ Joined(r_pc["out"]) /\ Joined(r_pc["err"])

\* the locals of Communicate (is_expired, the futures and the locals of the
\* finished workers) and of its Wait go out of scope; the argument is kept
\* for reference
LeaveCommunicate ==
    /\ is_expired' = FALSE
    /\ w_pc' = "none"
    /\ w_bw' = 0
    /\ w_off' = 0
    /\ r_pc' = [s \in Channels |-> "none"]
    /\ r_chunk' = [s \in Channels |-> NoBytes]
    /\ elapsed' = 0
    /\ UNCHANGED input

\* a timeout path that throws without waiting for the workers
CommunicateRaise_NoJoin ==
    /\ pc = "Communicate_join"
    /\ is_expired
    /\ ret' = Outcome("Timeout", Nullopt, cache_.bytes_written,
                      cache_.stdout_data, cache_.stderr_data)
    /\ pc' = "idle"
    /\ LeaveCommunicate
    /\ UNCHANGED <<timeout, calls, op>>
    /\ UNCHANGED <<popen_vars, kernel_vars, obs_vars>>
    /\ UNCHANGED aux_vars

\* the timeout path ends: the workers are joined, then
\* throw TimeoutExpired(..., cache_ contents)
CommunicateRaise ==
    /\ pc = "Communicate_join"
    /\ is_expired
    /\ AllJoined
    /\ ret' = Outcome("Timeout", Nullopt, cache_.bytes_written,
                      cache_.stdout_data, cache_.stderr_data)
    /\ pc' = "idle"
    /\ LeaveCommunicate
    /\ UNCHANGED <<timeout, calls, op>>
    /\ UNCHANGED <<popen_vars, kernel_vars, obs_vars>>
    /\ UNCHANGED aux_vars

\* the normal path ends: the workers are joined, the result is moved out of
\* cache_ and cache_ is reset (an exception of Wait other than TimeoutExpired
\* leaves through the destructors of the futures, which join too)
CommunicateReturn ==
    /\ pc = "Communicate_join"
    /\ ~is_expired
    /\ AllJoined
    /\ IF ret.kind = "OSError"
       THEN UNCHANGED <<ret, cache_>>
       ELSE /\ ret' = Outcome("return", Nullopt, cache_.bytes_written,
                              cache_.stdout_data, cache_.stderr_data)
            /\ cache_' = EmptyCache
    /\ pc' = "idle"
    /\ LeaveCommunicate
    /\ UNCHANGED <<timeout, calls, op>>
    /\ UNCHANGED <<in_opt, out_opt, err_opt, pipe_writer, pipe_reader, eof,
                   returncode_, usage_>>
    /\ UNCHANGED <<kernel_vars, obs_vars>>
    /\ UNCHANGED aux_vars

----------------------------------------------------------------------------
(* Communicate: the stdin feeder *)

\* the bytes OFileImpl::Write(data, offset, size) sends to the stream
Write(data, offset, size) == SubSeq(data, offset + 1, offset + size)

\* size of the next chunk
bytes_to_write == Min(BUFSIZ, Len(input) - w_bw)

\* the feeder without std_in_.pipe_writer.reset() after the last chunk
FeederHead_NoReset ==
    /\ w_pc = "head"
    /\ IF w_bw < Len(input)
       THEN IF is_expired
            THEN /\ cache_' = [cache_ EXCEPT !.bytes_written = w_bw]
                 /\ w_pc' = "done"
            ELSE /\ w_pc' = "write"
                 /\ UNCHANGED cache_
       ELSE /\ cache_' = [cache_ EXCEPT !.bytes_written = w_bw]
            /\ w_pc' = "done"
    /\ UNCHANGED pipe_writer
    /\ UNCHANGED <<input, is_expired, w_bw, w_off, r_pc, r_chunk>>
    /\ UNCHANGED <<in_opt, out_opt, err_opt, pipe_reader, eof, returncode_, usage_>>
    /\ UNCHANGED <<kernel_vars, main_vars, obs_vars>>
    /\ UNCHANGED aux_vars

\* top of the loop: the loop test, the is_expired test, and the code after
\* the loop
FeederHead ==
    /\ w_pc = "head"
    /\ IF w_bw < Len(input)
       THEN IF is_expired
            THEN /\ cache_' = [cache_ EXCEPT !.bytes_written = w_bw]
                 /\ w_pc' = "done"
                 /\ UNCHANGED pipe_writer
            ELSE /\ w_pc' = "write"
                 /\ UNCHANGED <<cache_, pipe_writer>>
       ELSE /\ pipe_writer' = FALSE
            /\ cache_' = [cache_ EXCEPT !.bytes_written = w_bw]
            /\ w_pc' = "done"
    /\ UNCHANGED <<input, is_expired, w_bw, w_off, r_pc, r_chunk>>
    /\ UNCHANGED <<in_opt, out_opt, err_opt, pipe_reader, eof, returncode_, usage_>>
    /\ UNCHANGED <<kernel_vars, main_vars, obs_vars>>
    /\ UNCHANGED aux_vars

\* std_in_.pipe_writer->Write(input, bytes_written, bytes_to_write) makes
\* progress: the blocking write moves what fits into the pipe; when the chunk
\* is through, bytes_written += bytes_to_write.  With the read-end closed
\* the write fails (EPIPE) and Write throws out of the worker.
FeederWrite ==
    /\ w_pc = "write"
    /\ IF child # "running"
       THEN /\ w_pc' = "threw"
            /\ UNCHANGED <<in_buf, accepted, w_bw, w_off>>
       ELSE /\ Len(in_buf) < PipeCap
            /\ LET n == bytes_to_write
                   k == Min(PipeCap - Len(in_buf), n - w_off)
               IN  /\ in_buf' = in_buf \o SubSeq(Write(input, w_bw, n), w_off + 1, w_off + k)
                   /\ accepted' = accepted + k
                   /\ IF w_off + k = n
                      THEN w_bw' = w_bw + n /\ w_off' = 0 /\ w_pc' = "head"
                      ELSE w_bw' = w_bw /\ w_off' = w_off + k /\ w_pc' = "write"
    /\ UNCHANGED <<input, is_expired, r_pc, r_chunk>>
    /\ UNCHANGED <<child, behav, status, disposition, pending, buf, emit_out, emit_err>>
    /\ UNCHANGED <<popen_vars, main_vars>>
    /\ UNCHANGED <<child_wrote, stored_at_entry, wait4_after_reap, kills, kill_after_reap>>
    /\ UNCHANGED aux_vars

----------------------------------------------------------------------------
(* Communicate: the stdout and stderr drainers *)

\* the chunk is appended only when Read filled it
Insert_FullOnly(s, chunk) ==
    IF Len(chunk) < BUFSIZ THEN cache_
    ELSE IF s = "out" THEN [cache_ EXCEPT !.stdout_data = @ \o chunk]
    ELSE [cache_ EXCEPT !.stderr_data = @ \o chunk]

\* cache_.stdout_data / cache_.stderr_data with chunk appended when non-empty
Insert(s, chunk) ==
    IF chunk = NoBytes THEN cache_
    ELSE IF s = "out" THEN [cache_ EXCEPT !.stdout_data = @ \o chunk]
    ELSE [cache_ EXCEPT !.stderr_data = @ \o chunk]

\* a drainer that resets its read handle when it stops on is_expired
DrainerHead_CloseOnExpiry(s) ==
    /\ r_pc[s] = "head"
    /\ IF ~eof[s]
       THEN /\ r_pc' = [r_pc EXCEPT ![s] = IF is_expired THEN "done" ELSE "read"]
            /\ pipe_reader' = [pipe_reader EXCEPT ![s] = IF is_expired THEN FALSE ELSE @]
       ELSE /\ pipe_reader' = [pipe_reader EXCEPT ![s] = FALSE]
            /\ r_pc' = [r_pc EXCEPT ![s] = "done"]
    /\ UNCHANGED <<input, is_expired, w_pc, w_bw, w_off, r_chunk>>
    /\ UNCHANGED <<in_opt, out_opt, err_opt, pipe_writer, eof, returncode_, usage_, cache_>>
    /\ UNCHANGED <<kernel_vars, main_vars, obs_vars>>
    /\ UNCHANGED aux_vars

\* top of the loop: the is_eof test, the is_expired test, and the code after
\* the loop
DrainerHead(s) ==
    /\ r_pc[s] = "head"
    /\ IF ~eof[s]
       THEN /\ r_pc' = [r_pc EXCEPT ![s] = IF is_expired THEN "done" ELSE "read"]
            /\ UNCHANGED pipe_reader
       ELSE /\ pipe_reader' = [pipe_reader EXCEPT ![s] = FALSE]
            /\ r_pc' = [r_pc EXCEPT ![s] = "done"]
    /\ UNCHANGED <<input, is_expired, w_pc, w_bw, w_off, r_chunk>>
    /\ UNCHANGED <<in_opt, out_opt, err_opt, pipe_writer, eof, returncode_, usage_, cache_>>
    /\ UNCHANGED <<kernel_vars, main_vars, obs_vars>>
    /\ UNCHANGED aux_vars

\* a Read whose buffer is overwritten by every fread that continues it
DrainerRead_Restart(s) ==
    /\ r_pc[s] = "read"
    /\ IF buf[s] # NoBytes
       THEN LET k == Min(Len(buf[s]), BUFSIZ - Len(r_chunk[s]))
                chunk == SubSeq(buf[s], 1, k)
            IN  /\ buf' = [buf EXCEPT ![s] = SubSeq(@, k + 1, Len(@))]
                /\ UNCHANGED eof
                /\ IF Len(chunk) = BUFSIZ
                   THEN /\ cache_' = Insert(s, chunk)
                        /\ r_chunk' = [r_chunk EXCEPT ![s] = NoBytes]
                        /\ r_pc' = [r_pc EXCEPT ![s] = "head"]
                   ELSE /\ r_chunk' = [r_chunk EXCEPT ![s] = chunk]
                        /\ UNCHANGED <<cache_, r_pc>>
       ELSE /\ child # "running"
            /\ eof' = [eof EXCEPT ![s] = TRUE]
            /\ cache_' = Insert(s, r_chunk[s])
            /\ r_chunk' = [r_chunk EXCEPT ![s] = NoBytes]
            /\ r_pc' = [r_pc EXCEPT ![s] = "head"]
            /\ UNCHANGED buf
    /\ UNCHANGED <<input, is_expired, w_pc, w_bw, w_off>>
    /\ UNCHANGED <<in_opt, out_opt, err_opt, pipe_writer, pipe_reader, returncode_, usage_>>
    /\ UNCHANGED <<child, behav, status, disposition, pending, in_buf, emit_out, emit_err>>
    /\ UNCHANGED <<main_vars, obs_vars>>
    /\ UNCHANGED aux_vars

\* pipe_reader->Read(BUFSIZ) makes progress: fread blocks until BUFSIZ bytes
\* are read or the stream is at end of file; the chunk returned is appended
\* to the cache.
DrainerRead(s) ==
    /\ r_pc[s] = "read"
    /\ IF buf[s] # NoBytes
       THEN LET k == Min(Len(buf[s]), BUFSIZ - Len(r_chunk[s]))
                chunk == r_chunk[s] \o SubSeq(buf[s], 1, k)
            IN  /\ buf' = [buf EXCEPT ![s] = SubSeq(@, k + 1, Len(@))]
                /\ UNCHANGED eof
                /\ IF Len(chunk) = BUFSIZ
                   THEN /\ cache_' = Insert(s, chunk)
                        /\ r_chunk' = [r_chunk EXCEPT ![s] = NoBytes]
                        /\ r_pc' = [r_pc EXCEPT ![s] = "head"]
                   ELSE /\ r_chunk' = [r_chunk EXCEPT ![s] = chunk]
                        /\ UNCHANGED <<cache_, r_pc>>
       ELSE /\ child # "running"
            /\ eof' = [eof EXCEPT ![s] = TRUE]
            /\ cache_' = Insert(s, r_chunk[s])
            /\ r_chunk' = [r_chunk EXCEPT ![s] = NoBytes]
            /\ r_pc' = [r_pc EXCEPT ![s] = "head"]
            /\ UNCHANGED buf
    /\ UNCHANGED <<input, is_expired, w_pc, w_bw, w_off>>
    /\ UNCHANGED <<in_opt, out_opt, err_opt, pipe_writer, pipe_reader, returncode_, usage_>>
    /\ UNCHANGED <<child, behav, status, disposition, pending, in_buf, emit_out, emit_err>>
    /\ UNCHANGED <<main_vars, obs_vars>>
    /\ UNCHANGED aux_vars

----------------------------------------------------------------------------
(* Specification *)

CallerStep ==
    \/ CallPoll
    \/ \E t \in Timeouts : CallWait(t)
    \/ Wait
    \/ Terminate
    \/ Kill
    \/ \E inp \in Inputs, t \in Timeouts : Communicate(inp, t)
    \/ CommunicateWait
    \/ CommunicateCatch
    \/ CommunicateRaise
    \/ CommunicateReturn

WorkerStep ==
    \/ FeederHead
    \/ FeederWrite
    \/ \E s \in Channels : DrainerHead(s)
    \/ \E s \in Channels : DrainerRead(s)

ChildStep ==
    \/ CatCopy
    \/ CatExit
    \/ EmitOut
    \/ EmitErr
    \/ \E s \in ExitStatuses : EmitExit(s)
    \/ EmitCrash
    \/ Deliver

Next == CallerStep \/ WorkerStep \/ ChildStep

Spec == Init /\ [][Next]_vars

\* Scheduling: every thread of the parent that can take a step eventually
\* takes one, and so does the child.  The caller is not obliged to issue
\* further API calls.
Fairness ==
    /\ WF_vars(Wait)
    /\ WF_vars(CommunicateWait)
    /\ WF_vars(CommunicateCatch)
    /\ WF_vars(CommunicateRaise)
    /\ WF_vars(CommunicateReturn)
    /\ WF_vars(FeederHead)
    /\ WF_vars(FeederWrite)
    /\ \A s \in Channels : WF_vars(DrainerHead(s)) /\ WF_vars(DrainerRead(s))
    /\ WF_vars(ChildStep)

\* The program whose caller only calls Communicate: no signal is ever sent,
\* so none is delivered.
CommunicateNext ==
    \/ \E inp \in Inputs, t \in Timeouts : Communicate(inp, t)
    \/ CommunicateWait
    \/ CommunicateCatch
    \/ CommunicateRaise
    \/ CommunicateReturn
    \/ WorkerStep
    \/ CatCopy
    \/ CatExit
    \/ EmitOut
    \/ EmitErr
    \/ \E s \in ExitStatuses : EmitExit(s)
    \/ EmitCrash

LiveSpec == Init /\ [][CommunicateNext]_vars /\ Fairness

\* The life of a controller on which Communicate is never called, from
\* construction to destruction: the caller polls, waits and signals, one
\* call more than MaxCalls, and destroys the controller at any idle point.
LifeInit ==
    /\ Constructed
    /\ budget = MaxCalls + 1
    /\ os_fails = {}
    /\ CtorIdle
    /\ PipeIdle
    /\ OwnerIdle

LifeNext ==
    \/ CallPoll
    \/ \E t \in Timeouts : CallWait(t)
    \/ Wait
    \/ Terminate
    \/ Kill
    \/ Destroy
    \/ DtorTerminate
    \/ DtorWait
    \/ DtorKill
    \/ CatExit
    \/ EmitOut
    \/ EmitErr
    \/ \E s \in ExitStatuses : EmitExit(s)
    \/ EmitCrash
    \/ Deliver

LifeSpec == LifeInit /\ [][LifeNext]_vars

----------------------------------------------------------------------------
(* Exit disposition and reaping *)

\* C8: once the child is reaped returncode() is the exit status s (0..255)
\* of a child that exited normally and -n for a child terminated by signal
\* n; returncode() holds a value exactly when the child is reaped, and never
\* any other value.
C8_ExitDisposition ==
    /\ returncode_.has_value <=> child = "reaped"
    /\ returncode_.has_value =>
          \/ /\ disposition[1] = "exit"
             /\ disposition[2] \in 0..255
             /\ returncode_.value = disposition[2]
          \/ /\ disposition[1] = "signal"
             /\ returncode_.value = 0 - disposition[2]

\* a child that died of a signal with a core dump has been reaped
C8_Witness ==
    /\ child = "reaped"
    /\ disposition[1] = "signal"
    /\ status > 128
    /\ returncode_.value < 0

\* C9: once the exit code is stored it never changes, no wait4 is issued on
\* the pid again, and every later Poll and every later Wait without timeout
\* returns the stored value.
C9_ExitCodeSetOnce ==
    [][returncode_.has_value =>
          /\ returncode_' = returncode_
          /\ ~wait4_after_reap'
          /\ CallPoll => ret' = Returned(returncode_)
          /\ (Wait /\ timeout = NoTimeout) =>
                (pc' = "idle" /\ ret' = Returned(returncode_))]_vars

\* a Poll entered with the exit code already stored has returned that code
C9_Witness ==
    /\ stored_at_entry
    /\ op = "Poll"
    /\ ret = Returned(returncode_)
    /\ returncode_.has_value

\* C10: once the exit code is stored, Terminate and Kill (SendSignal) issue
\* no kill on the pid and return without raising.
C10_SignalAfterReapIsNoOp ==
    [][(returncode_.has_value /\ (Terminate \/ Kill)) =>
          /\ kills' = kills
          /\ ~kill_after_reap'
          /\ ret' = Returned(Nullopt)]_vars

\* a Kill or Terminate entered with the exit code already stored has
\* returned, no kill having been issued at all
C10_Witness ==
    /\ stored_at_entry
    /\ op = "SendSignal"
    /\ ret = Returned(Nullopt)
    /\ kills = {}

----------------------------------------------------------------------------
(* Communicate *)

\* Communicate has been entered and has not left yet
InCommunicate == pc \in {"Communicate_Wait", "Communicate_catch", "Communicate_join"}

\* no worker of the current Communicate is still running
WorkersFinished ==
    /\ w_pc \in {"none", "done", "threw"}
    /\ \A s \in Channels : r_pc[s] \in {"none", "done"}

\* Communicate, the first call on the controller, has returned normally
FirstCommunicateReturned ==
    pc = "idle" /\ op = "Communicate" /\ calls = 1 /\ ret.kind = "return"

\* C1: Communicate(input) without timeout, on a fresh controller with stdin
\* and stdout PIPE whose child copies stdin to stdout until end of file,
\* returns stdout_data equal to input.
C1_CatRoundTrip ==
    (/\ FirstCommunicateReturned
     /\ timeout = NoTimeout
     /\ behav = "cat" /\ in_opt = "PIPE" /\ out_opt = "PIPE")
    => ret.stdout_data = input

\* an input longer than the pipe and longer than one chunk has come back
C1_Witness ==
    /\ FirstCommunicateReturned
    /\ timeout = NoTimeout
    /\ behav = "cat" /\ in_opt = "PIPE" /\ out_opt = "PIPE"
    /\ Len(input) = MaxInput /\ Len(input) > PipeCap /\ Len(input) > BUFSIZ
    /\ ret.stdout_data = input

\* the child writes more than one pipe buffer of output
WritesMoreThanPipe ==
    \/ behav = "emit"
    \/ behav = "cat" /\ in_opt = "PIPE" /\ Len(input) > PipeCap

\* C2: a Communicate without timeout, against a child that writes more than
\* one pipe buffer of output and exits, eventually returns, under every fair
\* interleaving of feeder, drainers, controlling thread and child.
C2_NoDeadlock ==
    (pc = "Communicate_Wait" /\ timeout = NoTimeout /\ WritesMoreThanPipe)
    ~> (pc = "idle" /\ ret.kind = "return")

\* both output pipes have carried more than a pipe buffer and Communicate
\* without timeout has returned it all
C2_Witness ==
    /\ pc = "idle" /\ op = "Communicate" /\ ret.kind = "return"
    /\ timeout = NoTimeout
    /\ behav = "emit"
    /\ Len(ret.stdout_data) > PipeCap
    /\ Len(ret.stderr_data) > PipeCap

\* C3 (as claimed): during a Communicate with empty input on a controller
\* whose stdin is PIPE, no stdin worker runs and the parent's stdin write-end
\* is closed.
C3_EmptyInputClosesStdin ==
    (InCommunicate /\ input = NoBytes /\ in_opt = "PIPE")
    => (w_pc = "none" /\ ~pipe_writer)

C5_DeadlineTerminates ==
    (pc = "Communicate_join" /\ is_expired) ~> (pc = "idle" /\ ret.kind = "Timeout")

C7_BytesWrittenAccurate ==
    /\ w_pc \in {"head", "write"} => w_bw <= accepted
    /\ (/\ pc = "idle" /\ op = "Communicate" /\ input # NoBytes
        /\ ret.kind \in {"return", "Timeout"})
       => ret.bytes_written = accepted

----------------------------------------------------------------------------
(* Wait *)

\* C12 (as claimed): a Wait entered when the child has already exited (here:
\* exited and reaped by an earlier call) returns the exit code in its first
\* step, without sleeping and without raising Timeout, whatever the timeout.
C12_WaitOnExitedChild ==
    [][(pc = "Wait" /\ stored_at_entry) =>
          /\ pc' = "idle"
          /\ ret'.kind = "return"
          /\ ret'.code.has_value
          /\ ret'.code = returncode_']_vars

\* C11: a Wait(timeout) that raises Timeout has sent no signal and changed
\* neither the child nor returncode_, usage_ or the pipe handles, in any of
\* its iterations; if the child is running then, nothing is stored or
\* pending; a Kill after it makes SIGKILL pending on the running child, and
\* a Wait that returns for a child ended by SIGKILL returns -9.
C11_WaitTimeoutLeavesChild ==
    /\ [][(pc = "Wait" /\ (elapsed' = elapsed + 1 \/ ret'.kind = "Timeout")) =>
             /\ kills' = kills /\ pending' = pending
             /\ child' = child /\ status' = status
             /\ returncode_' = returncode_ /\ usage_' = usage_
             /\ pipe_writer' = pipe_writer /\ pipe_reader' = pipe_reader
             /\ (ret'.kind = "Timeout" /\ child = "running") =>
                   (~returncode_'.has_value /\ ~usage_')]_vars
    /\ [][(/\ pc = "idle" /\ op = "Wait" /\ ret.kind = "Timeout"
           /\ child = "running" /\ Kill) => pending' = SIGKILL]_vars
    /\ [](/\ pc = "idle" /\ op = "Wait" /\ ret.kind = "return"
          /\ disposition = <<"signal", SIGKILL>>
          => ret.code = Some(0 - SIGKILL))

\* a Wait with a positive timeout has polled, slept and raised Timeout while
\* the child runs on, no signal sent and nothing stored
C11_Witness ==
    /\ pc = "idle" /\ op = "Wait" /\ ret.kind = "Timeout"
    /\ timeout > 0
    /\ child = "running" /\ pending = 0 /\ kills = {}
    /\ ~returncode_.has_value /\ ~usage_

----------------------------------------------------------------------------
(* ~Popen *)

\* C13: a destructor entered with the exit code stored, or which reaps the
\* child in its first Poll, sends nothing; otherwise it sends SIGTERM, then
\* runs the grace Wait, and sends SIGKILL only when that Wait timed out with
\* the child still not reaped; it sends nothing else.
C13_TerminateThenKill ==
    [][/\ (pc = "idle" /\ op' = "~Popen") =>
             /\ kills' = kills /\ pending' = pending
             /\ returncode_'.has_value => pc' = "destroyed"
             /\ pc' \in {"destroyed", "dtor_Terminate", "terminate"}
       /\ (pc = "dtor_Terminate" /\ pc' # pc) =>
             /\ kills' = kills \cup {SIGTERM}
             /\ pc' \in {"dtor_Wait", "terminate"}
             /\ pc' = "dtor_Wait" => (timeout' = Grace /\ elapsed' = 0)
       /\ pc = "dtor_Wait" =>
             /\ kills' = kills
             /\ pc' \in {"dtor_Wait", "dtor_Kill", "destroyed"}
             /\ pc' = "dtor_Kill" =>
                   (~(elapsed < Grace) /\ ~returncode_'.has_value /\ child' # "reaped")
             /\ returncode_'.has_value => pc' = "destroyed"
       /\ (pc = "dtor_Kill" /\ pc' # pc) =>
             /\ kills' = kills \cup {SIGKILL}
             /\ SIGTERM \in kills
             /\ pc' = "destroyed"
       /\ (pc \in {"dtor_Terminate", "dtor_Kill"} /\ pc' = pc) => kills' = kills
       /\ pc \in {"destroyed", "terminate"} => (kills' = kills /\ pc' = pc)]_vars

\* the destructor of a controller never signalled before has sent SIGTERM
\* and, the child not reaped within the grace wait, SIGKILL
C13_Witness ==
    /\ pc = "destroyed" /\ op = "~Popen"
    /\ calls = 0
    /\ kills = {SIGTERM, SIGKILL}
    /\ ~returncode_.has_value

----------------------------------------------------------------------------
(* std_in(), std_out(), std_err() *)

\* C16 (as claimed): after Communicate has returned normally the observers
\* std_in(), std_out() and std_err() are expired, that is, the controller
\* holds no pipe handle; a channel that is not PIPE never has a handle.
C16_HandlesExpiredAfterCommunicate ==
    /\ (pc = "idle" /\ op = "Communicate" /\ ret.kind = "return")
       => (~pipe_writer /\ \A s \in Channels : ~pipe_reader[s])
    /\ in_opt # "PIPE" => ~pipe_writer
    /\ \A s \in Channels : Option(s) # "PIPE" => ~pipe_reader[s]

----------------------------------------------------------------------------
(* Construction: Popen(args, std_in, std_out, std_err) *)

\* the variables of a constructed controller, its child and its caller
controller_vars == <<popen_vars, kernel_vars, worker_vars, main_vars, obs_vars, budget,
                     os_fails>>

\* what a construction leaves alone
outside_ctor == <<controller_vars, pipe_vars, owner_vars>>

\* no controller is being followed
NoController ==
    /\ Constructed
    /\ behav = "stall"
    /\ in_opt = "NONE" /\ out_opt = "NONE" /\ err_opt = "NONE"
    /\ cache_.bytes_written = 0
    /\ budget = 0
    /\ os_fails = {}

\* enum class IPCOption
IPCOption == {"NONE", "FILE", "PIPE", "STDOUT", "DEVNULL"}

\* a redirection argument: built from an IPCOption, or from a path (FILE)
Redirections == {<<o, FALSE>> : o \in IPCOption} \cup {<<"FILE", TRUE>>}

\* the characters of a command: an ordinary one, white space, the two quotes
Chars == {"a", " ", "'", "\""}
isspace(c) == c = " "

\* the command strings handed to the constructor
Commands == UNION {[1..n -> Chars] : n \in 0..MaxCmd}

\* the loop of Popen::Tokenize from index i on, and the code after it
RECURSIVE TokenizeFrom(_, _, _, _, _, _)
TokenizeFrom(s, i, tokens, current_token, in_single_quote, in_double_quote) ==
    IF i > Len(s)
    THEN IF current_token # <<>> THEN Append(tokens, current_token) ELSE tokens
    ELSE IF s[i] = "'" /\ ~in_double_quote
    THEN TokenizeFrom(s, i + 1, tokens, current_token, ~in_single_quote, in_double_quote)
    ELSE IF s[i] = "\"" /\ ~in_single_quote
    THEN TokenizeFrom(s, i + 1, tokens, current_token, in_single_quote, ~in_double_quote)
    ELSE IF isspace(s[i]) /\ ~in_single_quote /\ ~in_double_quote
    THEN IF current_token # <<>>
         THEN TokenizeFrom(s, i + 1, Append(tokens, current_token), <<>>,
                           in_single_quote, in_double_quote)
         ELSE TokenizeFrom(s, i + 1, tokens, current_token,
                           in_single_quote, in_double_quote)
    ELSE TokenizeFrom(s, i + 1, tokens, Append(current_token, s[i]),
                      in_single_quote, in_double_quote)

Tokenize(s) == TokenizeFrom(s, 1, <<>>, <<>>, FALSE, FALSE)

\* the ways IPCSource's constructor can end for argument a: the path
\* constructor opens the file, the option constructor accepts NONE and PIPE
IPCSourceOutcomes(a) ==
    IF a[2] THEN {"ok", "OSError"}
    ELSE CASE a[1] = "NONE" -> {"ok"}
           [] a[1] = "PIPE" -> {"ok", "OSError"}
           [] OTHER         -> {"InvalidArg"}

\* the ways IPCDestination's constructor can end for argument a
IPCDestinationOutcomes(a) ==
    IF a[2] THEN {"ok", "OSError"}
    ELSE CASE a[1] = "NONE"    -> {"ok"}
           [] a[1] = "PIPE"    -> {"ok", "OSError"}
           [] a[1] = "STDOUT"  -> {"ok"}
           [] a[1] = "DEVNULL" -> {"ok", "OSError"}
           [] OTHER            -> {"InvalidArg"}

\* the endpoints the constructor of the redirection argument a of channel
\* ch opens: the file of a path or of /dev/null, the two ends of a pipe
Opened(ch, a) ==
    IF a[2] THEN {<<ch, "file">>}
    ELSE CASE a[1] = "PIPE"    -> {<<ch, "pipe_reader">>, <<ch, "pipe_writer">>}
           [] a[1] = "DEVNULL" -> {<<ch, "file">>}
           [] OTHER            -> {}

\* a redirection argument has been built, or its constructor has thrown o
\* and the arguments built before it are destroyed
ArgumentBuilt(ch, o) ==
    /\ IF o = "ok"
       THEN /\ ctor_built' = ctor_built \cup {ch}
            /\ ctor_pc' = IF ctor_built' = {"in", "out", "err"} THEN "body" ELSE "args"
            /\ parent_fds' = parent_fds \cup Opened(ch, ctor_args[ch])
            /\ UNCHANGED ctor_ret
       ELSE /\ ctor_pc' = "done"
            /\ ctor_ret' = o
            /\ parent_fds' = {}
            /\ UNCHANGED ctor_built
    /\ UNCHANGED <<ctor_args, spawned, child_fds>>
    /\ UNCHANGED outside_ctor

\* the std_in argument is constructed
IPCSourceCtor ==
    /\ ctor_pc = "args" /\ "in" \notin ctor_built
    /\ \E o \in IPCSourceOutcomes(ctor_args.in) : ArgumentBuilt("in", o)

\* the std_out or the std_err argument is constructed
IPCDestinationCtor(ch) ==
    /\ ctor_pc = "args" /\ ch \notin ctor_built
    /\ \E o \in IPCDestinationOutcomes(ctor_args[ch]) : ArgumentBuilt(ch, o)

\* the default branches of the three switch statements of Popen::Popen
StdInSwitchThrows(option) == option \notin {"NONE", "FILE", "PIPE"}
StdErrSwitchThrows(option) == option \notin {"NONE", "FILE", "DEVNULL", "PIPE", "STDOUT"}

\* a stdout switch that has the STDOUT case of the stderr switch
StdOutSwitchThrows_WithStdout(option) == StdErrSwitchThrows(option)

StdOutSwitchThrows(option) == option \notin {"NONE", "FILE", "DEVNULL", "PIPE"}

\* what evaluating args_[0] of an empty args_ and spawning it can do
EmptyArgvOutcomes == {"crash", "OSError", "constructed"}

\* the ways the body of Popen::Popen can end
PopenCtorOutcomes ==
    IF ctor_args.cmd = <<>> THEN {"InvalidArg"}
    ELSE IF StdInSwitchThrows(ctor_args.in[1]) THEN {"InvalidArg"}
    ELSE IF StdOutSwitchThrows(ctor_args.out[1]) THEN {"InvalidArg"}
    ELSE IF StdErrSwitchThrows(ctor_args.err[1]) THEN {"InvalidArg"}
    ELSE IF Tokenize(ctor_args.cmd) = <<>> THEN EmptyArgvOutcomes
    ELSE {"constructed", "OSError"}

\* what descriptor 0, 1 and 2 of the child refer to once the file actions
\* have run, in the order the three switch statements add them
ChildStd(ch) ==
    LET o == ctor_args[ch][1]
    IN  CASE o \in {"FILE", "DEVNULL"} -> <<ch, "file">>
          [] o = "PIPE" -> <<ch, IF ch = "in" THEN "pipe_reader" ELSE "pipe_writer">>
          [] o = "STDOUT" ->
                IF ctor_args.out[1] \in {"FILE", "DEVNULL"} THEN <<"out", "file">>
                ELSE IF ctor_args.out[1] = "PIPE" THEN <<"out", "pipe_writer">>
                ELSE <<"out", "inherited">>
          [] OTHER -> <<ch, "inherited">>

\* the endpoints the addclose actions close in the child
ChildCloses ==
    UNION {IF ctor_args[ch][1] = "STDOUT" THEN {} ELSE Opened(ch, ctor_args[ch]) :
              ch \in {"in", "out", "err"}}

\* the descriptor table of the child when posix_spawnp has run the file
\* actions: its three standard streams, and every descriptor inherited from
\* the parent that no action closed
FileActions ==
    {<<ch, ChildStd(ch)>> : ch \in {"in", "out", "err"}}
        \cup {<<"other", x>> : x \in parent_fds \ ChildCloses}

\* a parent that does not reset the write-ends of the output pipes
ResetAfterSpawn_KeepWriters ==
    {<<"in", "file">>, <<"in", "pipe_reader">>, <<"out", "file">>, <<"err", "file">>}

\* the endpoints the parent resets after the spawn
ResetAfterSpawn ==
    {<<"in", "file">>, <<"in", "pipe_reader">>,
     <<"out", "file">>, <<"out", "pipe_writer">>,
     <<"err", "file">>, <<"err", "pipe_writer">>}

\* the body of Popen::Popen: the test of args, the file actions, the spawn,
\* the closing of the ends the parent does not use; when it throws, the
\* members are destroyed
PopenCtor ==
    /\ ctor_pc = "body"
    /\ \E o \in PopenCtorOutcomes :
          /\ ctor_ret' = o
          /\ spawned' = (o = "constructed")
          /\ IF o = "constructed"
             THEN /\ child_fds' = FileActions
                  /\ parent_fds' = parent_fds \ ResetAfterSpawn
             ELSE /\ child_fds' = {}
                  /\ parent_fds' = {}
    /\ ctor_pc' = "done"
    /\ UNCHANGED <<ctor_args, ctor_built>>
    /\ UNCHANGED outside_ctor

\* the spawned child exits: the kernel closes every descriptor it holds
CtorChildExits ==
    /\ ctor_pc = "done" /\ spawned
    /\ child_fds # {}
    /\ child_fds' = {}
    /\ UNCHANGED <<ctor_args, ctor_pc, ctor_built, ctor_ret, spawned, parent_fds>>
    /\ UNCHANGED outside_ctor

CtorInit ==
    /\ NoController
    /\ PipeIdle
    /\ OwnerIdle
    /\ \E c \in Commands, i \in Redirections, o \in Redirections, e \in Redirections :
          ctor_args = [cmd |-> c, in |-> i, out |-> o, err |-> e]
    /\ ctor_pc = "args"
    /\ ctor_built = {}
    /\ ctor_ret = "none"
    /\ spawned = FALSE
    /\ parent_fds = {}
    /\ child_fds = {}

CtorNext ==
    \/ IPCSourceCtor
    \/ \E ch \in Channels : IPCDestinationCtor(ch)
    \/ PopenCtor
    \/ CtorChildExits

CtorSpec == CtorInit /\ [][CtorNext]_vars

\* C14 (as claimed): a construction whose command tokenizes to an empty
\* argv, once the body of the constructor has run, has raised InvalidArg and
\* spawned no child.
C14_EmptyArgvRejected ==
    (/\ ctor_pc = "done"
     /\ ctor_built = {"in", "out", "err"}
     /\ Tokenize(ctor_args.cmd) = <<>>)
    => (ctor_ret = "InvalidArg" /\ ~spawned)

\* a redirection choice outside the allowed table
Rejected ==
    \/ ctor_args.in \in {<<"STDOUT", FALSE>>, <<"DEVNULL", FALSE>>, <<"FILE", FALSE>>}
    \/ ctor_args.out \in {<<"STDOUT", FALSE>>, <<"FILE", FALSE>>}
    \/ ctor_args.err = <<"FILE", FALSE>>

----------------------------------------------------------------------------
(* The non-blocking pipe endpoints: IPipeImpl and OPipeImpl *)

\* what an operation on a pipe endpoint leaves alone
outside_pipe == <<controller_vars, ctor_vars, owner_vars>>

\* size_type arithmetic: unsigned, SizeBits wide
Wrap(n) == n % (2 ^ SizeBits)
SIZE_MAX == (2 ^ SizeBits) - 1

\* the bytes the kernel buffers for a pipe: more than one atomic write
PipeCapacity == BUF_SIZE + 1

\* the buffer handed to Write: len bytes, pairwise distinct
Buffer(len) == [i \in 1..len |-> i]

\* a byte fetched from outside the caller's buffer
Garbage == 0

\* the sizes and offsets a caller passes: the small ones, and the largest
\* values of size_type
Sizes == (0..(MaxData + 1)) \cup {SIZE_MAX - 1, SIZE_MAX}
ReadSizes == 0..(BUF_SIZE + 1)

\* errno values after which ReadAll sleeps and retries
Transient == {"EINTR", "EAGAIN", "EWOULDBLOCK"}

\* read(2) of n > 0 bytes on the non-blocking read-end: what it may return
read_outcomes(n) ==
    (IF fifo # <<>> THEN {[n |-> Min(n, Len(fifo)), errno |-> "none"]}
     ELSE IF w_open THEN {[n |-> -1, errno |-> "EAGAIN"]}
     ELSE {[n |-> 0, errno |-> "none"]})
    \cup (IF signals > 0 THEN {[n |-> -1, errno |-> "EINTR"]} ELSE {})
    \cup (IF faulty THEN {[n |-> -1, errno |-> "EIO"]} ELSE {})

\* the kernel after a read(2) that ended as o
ReadKernel(o) ==
    /\ fifo' = IF o.n > 0 THEN SubSeq(fifo, o.n + 1, Len(fifo)) ELSE fifo
    /\ signals' = IF o.errno = "EINTR" THEN signals - 1 ELSE signals
    /\ UNCHANGED <<sent, w_open, r_open>>

\* Read as it would be if it gave up one EINTR early
ReadIteration_StopAtLimit(r, o, bytes) ==
    LET counted == [r EXCEPT !.issued = TRUE, !.got = @ \o bytes] IN
    IF o.n < 0 THEN
        IF o.errno = "EINTR" /\ r.eintr_cnt + 1 < EINTR_RETRY_LIMIT
        THEN [counted EXCEPT !.error = o.errno, !.eintr_cnt = @ + 1]
        ELSE [counted EXCEPT !.error = o.errno, !.pc = "return",
                             !.eintr_cnt = IF o.errno = "EINTR" THEN @ + 1 ELSE @]
    ELSE IF o.n = 0 THEN
        [counted EXCEPT !.error = "Eof", !.pc = "return"]
    ELSE
        [counted EXCEPT !.total_bytes = @ + o.n,
                        !.data = @ \o bytes,
                        !.pc = IF r.total_bytes + o.n < r.size THEN "Read" ELSE "return"]

\* IPipeImpl::Read, one iteration of the loop after a read(2) that ended as
\* o and delivered bytes; pc "return" when the loop is left
ReadIteration(r, o, bytes) ==
    LET counted == [r EXCEPT !.issued = TRUE, !.got = @ \o bytes] IN
    IF o.n < 0 THEN
        IF o.errno = "EINTR" /\ r.eintr_cnt + 1 <= EINTR_RETRY_LIMIT
        THEN [counted EXCEPT !.error = o.errno, !.eintr_cnt = @ + 1]
        ELSE [counted EXCEPT !.error = o.errno, !.pc = "return",
                             !.eintr_cnt = IF o.errno = "EINTR" THEN @ + 1 ELSE @]
    ELSE IF o.n = 0 THEN
        [counted EXCEPT !.error = "Eof", !.pc = "return"]
    ELSE
        [counted EXCEPT !.total_bytes = @ + o.n,
                        !.data = @ \o bytes,
                        !.pc = IF r.total_bytes + o.n < r.size THEN "Read" ELSE "return"]

\* the locals of Read go out of scope
ReadLocalsGone(r) ==
    [r EXCEPT !.size = 0, !.total_bytes = 0, !.eintr_cnt = 0,
              !.data = <<>>, !.error = "Ok"]

\* a call of the reader thread returns res
ReaderReturn(r, res) ==
    [ReadLocalsGone(r) EXCEPT !.pc = "idle", !.ret = res,
                              !.result = ReadResult(<<>>, "Ok")]

\* ReadAll as it would be if the bytes that come with a transient error
\* were not appended
ReadAllDispatch_DropOnTransient(r) ==
    LET appended == [r.result EXCEPT !.data = @ \o r.data]
        failed == [r.result EXCEPT !.error = r.error]
    IN  CASE r.error = "Ok" ->
                [ReadLocalsGone(r) EXCEPT !.result = appended, !.pc = "ReadAll"]
          [] r.error = "Eof" -> ReaderReturn(r, appended)
          [] r.error = "InvalidArg" -> ReaderReturn(r, failed)
          [] r.error \in Transient -> [ReadLocalsGone(r) EXCEPT !.pc = "sleep"]
          [] OTHER -> ReaderReturn(r, failed)

\* IPipeImpl::ReadAll, after Read returned {r.data, r.error}
ReadAllDispatch(r) ==
    LET appended == [r.result EXCEPT !.data = @ \o r.data]
        failed == [r.result EXCEPT !.error = r.error]
    IN  CASE r.error = "Ok" ->
                [ReadLocalsGone(r) EXCEPT !.result = appended, !.pc = "ReadAll"]
          [] r.error = "Eof" -> ReaderReturn(r, appended)
          [] r.error = "InvalidArg" -> ReaderReturn(r, failed)
          [] r.error \in Transient ->
                [ReadLocalsGone(r) EXCEPT !.result = appended, !.pc = "sleep"]
          [] OTHER -> ReaderReturn(r, failed)

\* Read as it would be without the test of size at line 26
ReadEntry_NoZeroCheck(r, size) ==
    [r EXCEPT !.pc = "Read", !.size = size, !.total_bytes = 0,
              !.eintr_cnt = 0, !.data = <<>>, !.error = "Ok"]

\* Read(size) is entered: lines 22-29
ReadEntry(r, size) ==
    IF size = 0
    THEN [r EXCEPT !.pc = "return", !.size = 0, !.total_bytes = 0,
                   !.eintr_cnt = 0, !.data = <<>>, !.error = "Ok"]
    ELSE [r EXCEPT !.pc = "Read", !.size = size, !.total_bytes = 0,
                   !.eintr_cnt = 0, !.data = <<>>, !.error = "Ok"]

\* the caller of the read-end calls Read(size)
CallRead(size) ==
    /\ reader.pc = "idle" /\ reader.left > 0 /\ r_open
    /\ LET r == ReadEntry([reader EXCEPT !.op = "Read", !.token = FALSE,
                                         !.left = @ - 1, !.got = <<>>,
                                         !.issued = FALSE], size)
       IN  reader' = IF r.pc = "return"
                     THEN ReaderReturn(r, ReadResult(r.data, r.error))
                     ELSE r
    /\ UNCHANGED <<pipe_kernel, cancel, signals, pipe_env, writer>>
    /\ UNCHANGED outside_pipe

\* Read as it would be if it took an empty pipe for the end of file
ReadSyscall_EofOnEmpty ==
    /\ reader.pc = "Read"
    /\ \E o \in read_outcomes(reader.size - reader.total_bytes) :
          LET bytes == IF o.n > 0 THEN SubSeq(fifo, 1, o.n) ELSE <<>>
              seen == IF o.errno = "EAGAIN" THEN [n |-> 0, errno |-> "none"] ELSE o
              r == ReadIteration(reader, seen, bytes)
          IN  /\ ReadKernel(o)
              /\ reader' = IF r.pc # "return" THEN r
                           ELSE IF r.op = "ReadAll" THEN ReadAllDispatch(r)
                           ELSE ReaderReturn(r, ReadResult(r.data, r.error))
    /\ UNCHANGED <<cancel, pipe_env, writer>>
    /\ UNCHANGED outside_pipe

\* one read(2) of Read, under the mutex of the endpoint; when the loop is
\* left, Read returns to its caller or to ReadAll
ReadSyscall ==
    /\ reader.pc = "Read"
    /\ \E o \in read_outcomes(reader.size - reader.total_bytes) :
          LET bytes == IF o.n > 0 THEN SubSeq(fifo, 1, o.n) ELSE <<>>
              r == ReadIteration(reader, o, bytes)
          IN  /\ ReadKernel(o)
              /\ reader' = IF r.pc # "return" THEN r
                           ELSE IF r.op = "ReadAll" THEN ReadAllDispatch(r)
                           ELSE ReaderReturn(r, ReadResult(r.data, r.error))
    /\ UNCHANGED <<cancel, pipe_env, writer>>
    /\ UNCHANGED outside_pipe

\* the caller of the read-end calls ReadAll(is_expired): the worker starts
CallReadAll(token) ==
    /\ reader.pc = "idle" /\ reader.left > 0 /\ r_open
    /\ reader' = [reader EXCEPT !.op = "ReadAll", !.token = token,
                                !.pc = "ReadAll", !.left = @ - 1,
                                !.result = ReadResult(<<>>, "Ok"),
                                !.got = <<>>, !.issued = FALSE]
    /\ UNCHANGED <<pipe_kernel, cancel, signals, pipe_env, writer>>
    /\ UNCHANGED outside_pipe

\* ReadAll as it would be if it did not look at the cancel token
ReadAllHead_NoCancel ==
    /\ reader.pc = "ReadAll"
    /\ reader' = ReadEntry(reader, BUF_SIZE)
    /\ UNCHANGED <<pipe_kernel, cancel, signals, pipe_env, writer>>
    /\ UNCHANGED outside_pipe

\* the head of ReadAll's loop: leave it when cancelled, else enter Read
ReadAllHead ==
    /\ reader.pc = "ReadAll"
    /\ reader' = IF reader.token /\ cancel
                 THEN ReaderReturn(reader, reader.result)
                 ELSE ReadEntry(reader, BUF_SIZE)
    /\ UNCHANGED <<pipe_kernel, cancel, signals, pipe_env, writer>>
    /\ UNCHANGED outside_pipe

\* the 100ms sleep of ReadAll ends
ReadAllWake ==
    /\ reader.pc = "sleep"
    /\ reader' = [reader EXCEPT !.pc = "ReadAll"]
    /\ UNCHANGED <<pipe_kernel, cancel, signals, pipe_env, writer>>
    /\ UNCHANGED outside_pipe
\* the n bytes write(2) fetches at data.data() + offset + total_bytes: the
\* address is computed in size_type, and what lies outside the buffer is
\* not the caller's data
Source(w, n) ==
    [j \in 1..n |->
        LET idx == Wrap(w.offset + w.total_bytes + (j - 1))
        IN  IF idx < Len(w.data) THEN w.data[idx + 1] ELSE Garbage]

InsideBuffer(w, n) ==
    \A j \in 1..n : Wrap(w.offset + w.total_bytes + (j - 1)) < Len(w.data)

\* write(2) of n > 0 bytes on the non-blocking write-end: what it may
\* return. A write of at most PIPE_BUF bytes is atomic; a longer one
\* transfers what fits.
write_outcomes(w, n) ==
    (IF ~r_open THEN {[n |-> -1, errno |-> "EPIPE"]}
     ELSE LET free == PipeCapacity - Len(fifo) IN
          IF n <= BUF_SIZE
          THEN IF free >= n THEN {[n |-> n, errno |-> "none"]}
                            ELSE {[n |-> -1, errno |-> "EAGAIN"]}
          ELSE IF free > 0 THEN {[n |-> Min(n, free), errno |-> "none"]}
                           ELSE {[n |-> -1, errno |-> "EAGAIN"]})
    \cup (IF signals > 0 THEN {[n |-> -1, errno |-> "EINTR"]} ELSE {})
    \cup (IF ~InsideBuffer(w, n) THEN {[n |-> -1, errno |-> "EFAULT"]} ELSE {})

\* the kernel after a write(2) that ended as o and placed bytes
WriteKernel(o, bytes) ==
    /\ fifo' = fifo \o bytes
    /\ sent' = sent \o bytes
    /\ signals' = IF o.errno = "EINTR" THEN signals - 1 ELSE signals
    /\ UNCHANGED <<w_open, r_open>>

\* OPipeImpl::Write, one iteration of the loop after a write(2) that ended
\* as o and placed bytes; pc "return" when the loop is left
WriteIteration(w, o, bytes) ==
    LET counted == [w EXCEPT !.issued = TRUE, !.put = @ \o bytes] IN
    IF o.n < 0 THEN
        IF o.errno = "EINTR" /\ w.eintr_cnt + 1 > EINTR_RETRY_LIMIT
        THEN [counted EXCEPT !.error = o.errno, !.eintr_cnt = @ + 1]
        ELSE [counted EXCEPT !.error = o.errno, !.pc = "return",
                             !.eintr_cnt = IF o.errno = "EINTR" THEN @ + 1 ELSE @]
    ELSE
        [counted EXCEPT !.total_bytes = @ + o.n,
                        !.pc = IF w.total_bytes + o.n < w.size THEN "Write" ELSE "return"]

\* the parameters and locals of Write go out of scope
WriteLocalsGone(w) ==
    [w EXCEPT !.total_bytes = 0, !.eintr_cnt = 0, !.error = "Ok",
              !.data = <<>>, !.offset = 0, !.size = 0]

\* a call of the writer thread returns res
WriterReturn(w, res) ==
    [WriteLocalsGone(w) EXCEPT !.pc = "idle", !.ret = res,
                               !.result = WriteResult(0, "Ok")]

\* WriteAll as it would be if it slept and retried after EPIPE
WriteAllDispatch_RetryOnEPIPE(w) ==
    LET failed == [w.result EXCEPT !.error = w.error] IN
    CASE w.error = "Ok" ->
            [WriteLocalsGone(w) EXCEPT
                !.result.bytes_written = Wrap(@ + w.total_bytes),
                !.pc = "WriteAll"]
      [] w.error = "InvalidArg" -> WriterReturn(w, failed)
      [] w.error \in Transient \cup {"EPIPE"} ->
            [WriteLocalsGone(w) EXCEPT !.pc = "wsleep"]
      [] OTHER -> WriterReturn(w, failed)

\* OPipeImpl::WriteAll, after Write returned {w.total_bytes, w.error}
WriteAllDispatch(w) ==
    LET failed == [w.result EXCEPT !.error = w.error] IN
    CASE w.error = "Ok" ->
            [WriteLocalsGone(w) EXCEPT
                !.result.bytes_written = Wrap(@ + w.total_bytes),
                !.pc = "WriteAll"]
      [] w.error = "InvalidArg" -> WriterReturn(w, failed)
      [] w.error \in Transient -> [WriteLocalsGone(w) EXCEPT !.pc = "wsleep"]
      [] OTHER -> WriterReturn(w, failed)

\* Write returns {w.total_bytes, w.error} to its caller or to WriteAll
WriteReturns(w) ==
    IF w.op = "WriteAll" THEN WriteAllDispatch(w)
    ELSE WriterReturn(w, WriteResult(w.total_bytes, w.error))

\* Write(data, offset, size) is entered: lines 89-100; pc "return" when it
\* returns before its loop
WriteEntry(w) ==
    IF Wrap(w.offset + w.size) > Len(w.data)
    THEN [w EXCEPT !.pc = "return", !.total_bytes = 0, !.eintr_cnt = 0,
                   !.error = "InvalidArg"]
    ELSE IF w.size = 0
    THEN [w EXCEPT !.pc = "return", !.total_bytes = 0, !.eintr_cnt = 0,
                   !.error = "Ok"]
    ELSE [w EXCEPT !.pc = "Write", !.total_bytes = 0, !.eintr_cnt = 0,
                   !.error = "Ok"]

\* the caller of the write-end calls Write(data, offset, size)
CallWrite(len, offset, size) ==
    /\ writer.pc = "idle" /\ writer.left > 0 /\ w_open
    /\ LET w == WriteEntry([writer EXCEPT
                                !.op = "Write",
                                !.data = Buffer(len),
                                !.offset = offset, !.size = size,
                                !.out_of_range = offset + size > len,
                                !.zero_size = (size = 0 /\ offset <= len),
                                !.left = @ - 1, !.put = <<>>, !.issued = FALSE])
       IN  writer' = IF w.pc = "return" THEN WriteReturns(w) ELSE w
    /\ UNCHANGED <<pipe_kernel, cancel, signals, pipe_env, reader>>
    /\ UNCHANGED outside_pipe

\* one write(2) of Write, under the mutex of the endpoint
WriteSyscall ==
    /\ writer.pc = "Write"
    /\ LET n == writer.size - writer.total_bytes IN
       \E o \in write_outcomes(writer, n) :
          LET bytes == IF o.n > 0 THEN SubSeq(Source(writer, n), 1, o.n) ELSE <<>>
              w == WriteIteration(writer, o, bytes)
          IN  /\ WriteKernel(o, bytes)
              /\ writer' = IF w.pc # "return" THEN w ELSE WriteReturns(w)
    /\ UNCHANGED <<cancel, pipe_env, reader>>
    /\ UNCHANGED outside_pipe

\* WriteAll(data, offset, is_expired) is entered by thread w: the worker
\* starts, and returns at once when data is empty (line 129)
WriteAllEntry(w, data, offset, token) ==
    LET e == [w EXCEPT !.op = "WriteAll",
                       !.all_data = data, !.all_offset = offset,
                       !.token = token,
                       !.result = WriteResult(0, "Ok"),
                       !.out_of_range = FALSE, !.zero_size = FALSE,
                       !.left = @ - 1, !.put = <<>>, !.issued = FALSE]
    IN  IF data = <<>> THEN WriterReturn(e, e.result)
        ELSE [e EXCEPT !.pc = "WriteAll"]

\* the caller of the write-end calls WriteAll(data, offset, is_expired)
CallWriteAll(len, offset, token) ==
    /\ writer.pc = "idle" /\ writer.left > 0 /\ w_open
    /\ writer' = WriteAllEntry(writer, Buffer(len), offset, token)
    /\ UNCHANGED <<pipe_kernel, cancel, signals, pipe_env, reader>>
    /\ UNCHANGED outside_pipe

\* the bytes WriteAll still has to write: data.size() - offset -
\* result.bytes_written, in size_type
Remaining(w) == Wrap(Len(w.all_data) - w.all_offset - w.result.bytes_written)

\* WriteAll as it would be if it wrote one byte per Write
WriteAllLoop_ByteChunks(w) ==
    LET e == WriteEntry([w EXCEPT
                    !.data = w.all_data,
                    !.offset = Wrap(w.all_offset + w.result.bytes_written),
                    !.size = Min(1, Remaining(w))])
    IN  IF ~(w.result.bytes_written < Wrap(Len(w.all_data) - w.all_offset))
        THEN WriterReturn(w, w.result)
        ELSE IF w.token /\ cancel
        THEN WriterReturn(w, w.result)
        ELSE IF e.pc = "return" THEN WriteReturns(e) ELSE e

\* the head of WriteAll's loop, lines 131-135, in thread w: leave it when
\* everything is written or when cancelled, else enter Write on the next
\* chunk
WriteAllLoop(w) ==
    LET e == WriteEntry([w EXCEPT
                    !.data = w.all_data,
                    !.offset = Wrap(w.all_offset + w.result.bytes_written),
                    !.size = Min(BUF_SIZE, Remaining(w))])
    IN  IF ~(w.result.bytes_written < Wrap(Len(w.all_data) - w.all_offset))
        THEN WriterReturn(w, w.result)
        ELSE IF w.token /\ cancel
        THEN WriterReturn(w, w.result)
        ELSE IF e.pc = "return" THEN WriteReturns(e) ELSE e

WriteAllHead ==
    /\ writer.pc = "WriteAll"
    /\ writer' = WriteAllLoop(writer)
    /\ UNCHANGED <<pipe_kernel, cancel, signals, pipe_env, reader>>
    /\ UNCHANGED outside_pipe

\* the 100ms sleep of WriteAll ends
WriteAllWake ==
    /\ writer.pc = "wsleep"
    /\ writer' = [writer EXCEPT !.pc = "WriteAll"]
    /\ UNCHANGED <<pipe_kernel, cancel, signals, pipe_env, reader>>
    /\ UNCHANGED outside_pipe

\* the owner of the write-end destroys it: the descriptor is closed
CloseWriteEnd ==
    /\ w_open /\ writer.pc = "idle"
    /\ \A t \in Writers : threads[t].pc = "idle"
    /\ w_open' = FALSE
    /\ UNCHANGED <<fifo, sent, r_open, cancel, signals, pipe_env, reader, writer>>
    /\ UNCHANGED outside_pipe

\* the owner of the read-end destroys it
CloseReadEnd ==
    /\ r_open /\ reader.pc = "idle"
    /\ r_open' = FALSE
    /\ UNCHANGED <<fifo, sent, w_open, cancel, signals, pipe_env, reader, writer>>
    /\ UNCHANGED outside_pipe

\* the owner of the cancel token sets it
Expire ==
    /\ ~cancel
    /\ cancel' = TRUE
    /\ UNCHANGED <<pipe_kernel, signals, pipe_env, reader, writer>>
    /\ UNCHANGED outside_pipe

\* the process at the other end writes n more bytes with one write(2); the
\* k-th byte it sends is k
PeerWrite(n) ==
    /\ peer = "writes" /\ w_open /\ r_open
    /\ Len(sent) + n <= MaxSent
    /\ Len(fifo) + n <= PipeCapacity
    /\ LET bytes == [j \in 1..n |-> Len(sent) + j]
       IN  fifo' = fifo \o bytes /\ sent' = sent \o bytes
    /\ UNCHANGED <<w_open, r_open, cancel, signals, pipe_env, reader, writer>>
    /\ UNCHANGED outside_pipe

\* the process at the other end takes n bytes out with one read(2)
PeerRead(n) ==
    /\ peer = "reads" /\ r_open
    /\ n <= Len(fifo)
    /\ fifo' = SubSeq(fifo, n + 1, Len(fifo))
    /\ UNCHANGED <<sent, w_open, r_open, cancel, signals, pipe_env, reader, writer>>
    /\ UNCHANGED outside_pipe

\* k bytes written into the pipe before the endpoints are used
Preloaded(k) == [j \in 1..k |-> 0 - j]

\* a pipe with both endpoints constructed, holding anything from nothing to
\* a full buffer; the owner of each endpoint issues one call on it
PipeInit ==
    /\ NoController
    /\ CtorIdle
    /\ \E k \in 0..PipeCapacity : fifo = Preloaded(k) /\ sent = Preloaded(k)
    /\ w_open = TRUE /\ r_open = TRUE
    /\ cancel = FALSE
    /\ signals = EINTR_RETRY_LIMIT + 1
    /\ peer = "none"
    /\ faulty = FALSE
    /\ OwnerIdle
    /\ NoThreads
    /\ reader = ReaderIdle(1)
    /\ writer = WriterIdle(1)

ReaderCalls ==
    \/ \E size \in ReadSizes : CallRead(size)
    \/ ReadSyscall

ReadAllCalls ==
    \/ \E token \in BOOLEAN : CallReadAll(token)
    \/ ReadAllHead
    \/ ReadAllWake

WriterCalls ==
    \/ \E len \in 0..MaxData, offset \in Sizes, size \in Sizes :
          CallWrite(len, offset, size)
    \/ WriteSyscall

\* the lengths and offsets handed to WriteAll: buffers of more than one
\* chunk, offsets within the data, just past it, and the largest value
AllLengths == 0..(BUF_SIZE + MaxData)
AllOffsets == (0..(MaxData + 1)) \cup {SIZE_MAX}

WriteAllCalls ==
    \/ \E len \in AllLengths, offset \in AllOffsets, token \in BOOLEAN :
          CallWriteAll(len, offset, token)
    \/ WriteAllHead
    \/ WriteAllWake

\* the chunked operations of the two endpoints of one pipe
PipeNext ==
    \/ ReaderCalls
    \/ WriterCalls
    \/ CloseWriteEnd
    \/ CloseReadEnd

PipeSpec == PipeInit /\ [][PipeNext]_vars

\* the read-end of a pipe whose write-end belongs to another process, which
\* writes MaxSent bytes at its own pace and closes
ReaderInit ==
    /\ NoController
    /\ CtorIdle
    /\ fifo = <<>> /\ sent = <<>>
    /\ w_open = TRUE /\ r_open = TRUE
    /\ cancel = FALSE
    /\ signals = EINTR_RETRY_LIMIT + 1
    /\ peer = "writes"
    /\ faulty = FALSE
    /\ OwnerIdle
    /\ NoThreads
    /\ reader = ReaderIdle(1)
    /\ writer = WriterIdle(0)

ReaderNext ==
    \/ ReaderCalls
    \/ ReadAllCalls
    \/ \E n \in 1..PipeCapacity : PeerWrite(n)
    \/ CloseWriteEnd
    \/ CloseReadEnd
    \/ Expire

ReaderSpec == ReaderInit /\ [][ReaderNext]_vars

\* the same read-end on a descriptor whose read(2) can fail with an errno
\* that is not transient
FaultInit ==
    /\ NoController
    /\ CtorIdle
    /\ fifo = <<>> /\ sent = <<>>
    /\ w_open = TRUE /\ r_open = TRUE
    /\ cancel = FALSE
    /\ signals = EINTR_RETRY_LIMIT + 1
    /\ peer = "writes"
    /\ faulty = TRUE
    /\ OwnerIdle
    /\ NoThreads
    /\ reader = ReaderIdle(1)
    /\ writer = WriterIdle(0)

FaultSpec == FaultInit /\ [][ReaderNext]_vars

\* the thread that runs ReadAll keeps running: a syscall returns, a sleep
\* ends, the loop goes on
ReaderFairness ==
    /\ WF_vars(ReadSyscall)
    /\ WF_vars(ReadAllHead)
    /\ WF_vars(ReadAllWake)

FairReaderSpec == ReaderSpec /\ ReaderFairness

\* the write-end of a pipe whose read-end belongs to another process, which
\* reads at its own pace and closes
WriterInit ==
    /\ NoController
    /\ CtorIdle
    /\ fifo = <<>> /\ sent = <<>>
    /\ w_open = TRUE /\ r_open = TRUE
    /\ cancel = FALSE
    /\ signals = EINTR_RETRY_LIMIT + 1
    /\ peer = "reads"
    /\ faulty = FALSE
    /\ OwnerIdle
    /\ NoThreads
    /\ reader = ReaderIdle(0)
    /\ writer = WriterIdle(1)

WriterNext ==
    \/ WriterCalls
    \/ WriteAllCalls
    \/ \E n \in 1..PipeCapacity : PeerRead(n)
    \/ CloseWriteEnd
    \/ CloseReadEnd
    \/ Expire

WriterSpec == WriterInit /\ [][WriterNext]_vars

\* the thread that runs Write or WriteAll keeps running
WriterFairness ==
    /\ WF_vars(WriteSyscall)
    /\ WF_vars(WriteAllHead)
    /\ WF_vars(WriteAllWake)

FairWriterSpec == WriterSpec /\ WriterFairness

----------------------------------------------------------------------------
(* Several threads calling WriteAll on one write-end, one ReadAll draining *)

\* the buffer thread t hands to WriteAll: len bytes that no other thread
\* sends
ThreadBuffer(t, len) == [j \in 1..len |-> t * (PipeCapacity + 1) + j]

\* thread t calls WriteAll(data, 0) with a buffer of at most PIPE_BUF bytes
ThreadCallWriteAll(t, len) ==
    /\ threads[t].pc = "idle" /\ threads[t].left > 0 /\ w_open
    /\ threads' = [threads EXCEPT
                      ![t] = WriteAllEntry(@, ThreadBuffer(t, len), 0, FALSE)]
    /\ UNCHANGED <<pipe_kernel, cancel, signals, peer, faulty, rd_threads, rd_mutex, mutex, reader, writer>>
    /\ UNCHANGED outside_pipe

\* the head of WriteAll's loop in thread t
ThreadWriteAllHead(t) ==
    /\ threads[t].pc = "WriteAll"
    /\ threads' = [threads EXCEPT ![t] = WriteAllLoop(@)]
    /\ UNCHANGED <<pipe_kernel, cancel, signals, peer, faulty, rd_threads, rd_mutex, mutex, reader, writer>>
    /\ UNCHANGED outside_pipe

\* thread t takes the mutex without waiting for it
ThreadLock_NoWait(t) ==
    /\ threads[t].pc = "Write"
    /\ mutex' = t
    /\ threads' = [threads EXCEPT ![t].pc = "write(2)"]
    /\ UNCHANGED <<pipe_kernel, cancel, signals, peer, faulty, rd_threads, rd_mutex, reader, writer>>
    /\ UNCHANGED outside_pipe

\* std::lock_guard lock(mutex_), line 105: thread t acquires the mutex of
\* the endpoint and enters write(2)
ThreadLock(t) ==
    /\ threads[t].pc = "Write"
    /\ mutex = 0
    /\ mutex' = t
    /\ threads' = [threads EXCEPT ![t].pc = "write(2)"]
    /\ UNCHANGED <<pipe_kernel, cancel, signals, peer, faulty, rd_threads, rd_mutex, reader, writer>>
    /\ UNCHANGED outside_pipe

\* write(2) of thread t returns and the lock_guard goes out of scope, lines
\* 106-107; the rest of the iteration follows
ThreadWriteSyscall(t) ==
    /\ threads[t].pc = "write(2)"
    /\ LET w0 == [threads[t] EXCEPT !.pc = "Write"]
           n == w0.size - w0.total_bytes
       IN  \E o \in write_outcomes(w0, n) :
              LET bytes == IF o.n > 0 THEN SubSeq(Source(w0, n), 1, o.n) ELSE <<>>
                  w == WriteIteration(w0, o, bytes)
              IN  /\ WriteKernel(o, bytes)
                  /\ threads' = [threads EXCEPT
                        ![t] = IF w.pc # "return" THEN w ELSE WriteReturns(w)]
    /\ mutex' = IF mutex = t THEN 0 ELSE mutex
    /\ UNCHANGED <<cancel, peer, faulty, rd_threads, rd_mutex, reader, writer>>
    /\ UNCHANGED outside_pipe

\* the 100ms sleep of WriteAll ends in thread t
ThreadWriteAllWake(t) ==
    /\ threads[t].pc = "wsleep"
    /\ threads' = [threads EXCEPT ![t].pc = "WriteAll"]
    /\ UNCHANGED <<pipe_kernel, cancel, signals, peer, faulty, rd_threads, rd_mutex, mutex, reader, writer>>
    /\ UNCHANGED outside_pipe

\* a pipe whose write-end is shared by MaxWriters threads, each calling
\* WriteAll once, and whose read-end is drained by one ReadAll
ConcInit ==
    /\ NoController
    /\ CtorIdle
    /\ fifo = <<>> /\ sent = <<>>
    /\ w_open = TRUE /\ r_open = TRUE
    /\ cancel = FALSE
    /\ signals = EINTR_RETRY_LIMIT
    /\ peer = "none"
    /\ faulty = FALSE
    /\ OwnerIdle
    /\ threads = [t \in Writers |-> WriterIdle(1)]
    /\ mutex = 0
    /\ rd_threads = [t \in Readers |-> ReaderIdle(0)]
    /\ rd_mutex = 0
    /\ reader = ReaderIdle(1)
    /\ writer = WriterIdle(0)

ConcNext ==
    \/ \E t \in Writers, len \in 1..BUF_SIZE : ThreadCallWriteAll(t, len)
    \/ \E t \in Writers : ThreadWriteAllHead(t)
    \/ \E t \in Writers : ThreadLock(t)
    \/ \E t \in Writers : ThreadWriteSyscall(t)
    \/ \E t \in Writers : ThreadWriteAllWake(t)
    \/ CallReadAll(FALSE)
    \/ ReadAllHead
    \/ ReadSyscall
    \/ ReadAllWake
    \/ CloseWriteEnd

ConcSpec == ConcInit /\ [][ConcNext]_vars

----------------------------------------------------------------------------
(* Several threads calling Write on one write-end and several calling Read
   on the read-end of the same pipe *)

\* thread t calls Write(data, 0, data.size()) on the shared write-end
ThreadCallWrite(t, len) ==
    /\ threads[t].pc = "idle" /\ threads[t].left > 0 /\ w_open
    /\ threads' = [threads EXCEPT
          ![t] = WriteEntry([@ EXCEPT !.op = "Write",
                                      !.data = ThreadBuffer(t, len),
                                      !.offset = 0, !.size = len,
                                      !.out_of_range = FALSE, !.zero_size = FALSE,
                                      !.left = @ - 1, !.put = <<>>,
                                      !.issued = FALSE])]
    /\ UNCHANGED <<pipe_kernel, cancel, signals, peer, faulty, mutex, rd_threads, rd_mutex,
                   reader, writer>>
    /\ UNCHANGED outside_pipe

\* thread t calls Read(size) on the shared read-end
RdCallRead(t, size) ==
    /\ rd_threads[t].pc = "idle" /\ rd_threads[t].left > 0 /\ r_open
    /\ rd_threads' = [rd_threads EXCEPT
          ![t] = ReadEntry([@ EXCEPT !.op = "Read", !.token = FALSE,
                                     !.left = @ - 1, !.got = <<>>,
                                     !.issued = FALSE], size)]
    /\ UNCHANGED <<pipe_kernel, cancel, signals, peer, faulty, threads, mutex, rd_mutex,
                   reader, writer>>
    /\ UNCHANGED outside_pipe

\* std::lock_guard lock(mutex_), line 34: thread t acquires the mutex of
\* the read-end and enters read(2)
RdLock(t) ==
    /\ rd_threads[t].pc = "Read"
    /\ rd_mutex = 0
    /\ rd_mutex' = t
    /\ rd_threads' = [rd_threads EXCEPT ![t].pc = "read(2)"]
    /\ UNCHANGED <<pipe_kernel, cancel, signals, peer, faulty, threads, mutex,
                   reader, writer>>
    /\ UNCHANGED outside_pipe

\* read(2) of thread t returns and the lock_guard goes out of scope, lines
\* 35-36; the rest of the iteration follows
RdSyscall(t) ==
    /\ rd_threads[t].pc = "read(2)"
    /\ LET r0 == [rd_threads[t] EXCEPT !.pc = "Read"] IN
       \E o \in read_outcomes(r0.size - r0.total_bytes) :
          LET bytes == IF o.n > 0 THEN SubSeq(fifo, 1, o.n) ELSE <<>>
              r == ReadIteration(r0, o, bytes)
          IN  /\ ReadKernel(o)
              /\ rd_threads' = [rd_threads EXCEPT
                    ![t] = IF r.pc # "return" THEN r
                           ELSE ReaderReturn(r, ReadResult(r.data, r.error))]
    /\ rd_mutex' = IF rd_mutex = t THEN 0 ELSE rd_mutex
    /\ UNCHANGED <<cancel, peer, faulty, threads, mutex, reader, writer>>
    /\ UNCHANGED outside_pipe

\* a pipe one end of which is shared by MaxWriters threads, each making one
\* call, while another process works on the other end: either the write-end
\* is shared and the process reads, or the read-end is shared and the
\* process writes
MutexInit ==
    /\ NoController
    /\ CtorIdle
    /\ fifo = <<>> /\ sent = <<>>
    /\ w_open = TRUE /\ r_open = TRUE
    /\ cancel = FALSE
    /\ faulty = FALSE
    /\ OwnerIdle
    /\ mutex = 0
    /\ rd_mutex = 0
    /\ \/ /\ peer = "reads"
          /\ signals = 0
          /\ threads = [t \in Writers |-> WriterIdle(1)]
          /\ rd_threads = [t \in Readers |-> ReaderIdle(0)]
       \/ /\ peer = "writes"
          /\ signals = EINTR_RETRY_LIMIT
          /\ threads = [t \in Writers |-> WriterIdle(0)]
          /\ rd_threads = [t \in Readers |-> ReaderIdle(1)]
    /\ reader = ReaderIdle(0)
    /\ writer = WriterIdle(0)

\* the buffers the threads write: one atomic write, and more than the pipe
\* can take; the sizes they read: one byte, and more than one atomic write
MutexLengths == {BUF_SIZE, PipeCapacity + 1}
MutexSizes == {1, BUF_SIZE + 1}

MutexNext ==
    \/ \E t \in Writers, len \in MutexLengths : ThreadCallWrite(t, len)
    \/ \E t \in Writers : ThreadLock(t)
    \/ \E t \in Writers : ThreadWriteSyscall(t)
    \/ \E n \in 1..PipeCapacity : PeerRead(n)
    \/ \E t \in Readers, size \in MutexSizes : RdCallRead(t, size)
    \/ \E t \in Readers : RdLock(t)
    \/ \E t \in Readers : RdSyscall(t)
    \/ \E n \in 1..PipeCapacity : PeerWrite(n)

MutexSpec == MutexInit /\ [][MutexNext]_vars

----------------------------------------------------------------------------
(* Claims C17-C20: the pipe endpoints *)

\* C17 (as claimed): a Write(data, offset, size) whose offset + size exceeds
\* the length of data has returned at once with error InvalidArg and
\* bytes_written = 0, has issued no write(2) and has placed nothing in the
\* pipe.
C17_OutOfRangeRejected ==
    (writer.op = "Write" /\ writer.out_of_range) =>
        /\ writer.pc = "idle"
        /\ writer.ret = WriteResult(0, "InvalidArg")
        /\ ~writer.issued
        /\ writer.put = <<>>

\* C18: the step that calls Read(0) returns at once an empty ReadResult
\* with error Ok, and the step that calls Write(data, offset, 0) with offset
\* within data returns at once bytes_written = 0 with error Ok; neither
\* issues a syscall and the pipe (content, open ends) is as before, whether
\* it is empty, full or closed at the other end.
C18_ZeroSizeNoOp ==
    /\ [][(reader.left > reader'.left /\ reader'.op = "Read" /\ reader'.size = 0) =>
             /\ reader'.pc = "idle"
             /\ reader'.ret = ReadResult(<<>>, "Ok")
             /\ ~reader'.issued /\ reader'.got = <<>>
             /\ UNCHANGED pipe_kernel]_vars
    /\ [][(writer.left > writer'.left /\ writer'.op = "Write" /\ writer'.zero_size) =>
             /\ writer'.pc = "idle"
             /\ writer'.ret = WriteResult(0, "Ok")
             /\ ~writer'.issued /\ writer'.put = <<>>
             /\ UNCHANGED pipe_kernel]_vars

\* Read(0) and Write(data, offset, 0) have both returned on a full pipe
C18_Witness ==
    /\ reader.op = "Read" /\ reader.pc = "idle" /\ ~reader.issued
    /\ reader.ret = ReadResult(<<>>, "Ok")
    /\ writer.op = "Write" /\ writer.pc = "idle" /\ writer.zero_size
    /\ writer.ret = WriteResult(0, "Ok") /\ ~writer.issued
    /\ Len(fifo) = PipeCapacity

\* C19: round trip. While a ReadAll is in flight, the bytes it has
\* accumulated, those its current Read holds and those still in the pipe
\* are together exactly what was written, in order (nothing lost,
\* repeated or displaced, whatever errors Read reported); and a ReadAll
\* that has completed without being cancelled has completed with error Ok
\* after the write-end was closed, with data exactly the bytes written.
C19_ReadAllRoundTrip ==
    /\ (reader.op = "ReadAll" /\ reader.pc # "idle") =>
          reader.result.data \o reader.data \o fifo = sent
    /\ (reader.op = "ReadAll" /\ reader.pc = "idle" /\ ~(reader.token /\ cancel)) =>
          /\ reader.ret = ReadResult(sent, "Ok")
          /\ ~w_open /\ fifo = <<>>

\* a ReadAll, interrupted by signals on its way, has returned all MaxSent
\* bytes that were written in more than one write
C19_Witness ==
    /\ reader.op = "ReadAll" /\ reader.pc = "idle" /\ ~cancel
    /\ reader.ret = ReadResult(sent, "Ok")
    /\ Len(sent) = MaxSent /\ sent = reader.got
    /\ signals = 0
    /\ ~w_open

\* C20: a ReadAll that was handed the cancel token and is in flight when
\* the token is set eventually completes; once the token is set it enters
\* no further Read (the one in flight ends, one sleep may follow, then the
\* head of the loop leaves); and it completes with error Ok and data
\* exactly the bytes it took out of the pipe, also when the pipe stays
\* empty and the write-end is never closed.
C20_ReadAllCancellable ==
    /\ (reader.op = "ReadAll" /\ reader.pc # "idle" /\ reader.token /\ cancel)
          ~> (reader.pc = "idle")
    /\ [][(reader.pc = "ReadAll" /\ reader.token /\ cancel) =>
             reader'.pc \in {"ReadAll", "idle"}]_vars
    /\ [][(reader.pc = "sleep" /\ reader.token /\ cancel) =>
             reader'.pc \in {"sleep", "ReadAll"}]_vars
    /\ []((reader.op = "ReadAll" /\ reader.pc = "idle" /\ reader.token /\ cancel) =>
             (reader.ret = ReadResult(reader.got, "Ok")))

\* a cancelled ReadAll has returned nothing, with Ok, from a pipe that
\* nobody wrote to and whose write-end is still open
C20_Witness ==
    /\ reader.op = "ReadAll" /\ reader.pc = "idle" /\ reader.token /\ cancel
    /\ reader.issued
    /\ reader.ret = ReadResult(<<>>, "Ok")
    /\ sent = <<>> /\ w_open

----------------------------------------------------------------------------
(* Claims C21-C30: the pipe endpoints, continued *)

\* the bytes of data a WriteAll has not written yet
Unwritten(w) == Len(w.all_data) - w.all_offset - w.result.bytes_written

\* C21: a WriteAll in flight on a pipe whose read-end has been closed
\* eventually completes; and when it completes with the read-end closed,
\* bytes of data still unwritten and the cancel token not set, it completes
\* with error EPIPE and bytes_written below the length of data.
C21_WriteAllBrokenPipe ==
    /\ (writer.op = "WriteAll" /\ writer.pc # "idle" /\ ~r_open)
          ~> (writer.pc = "idle")
    /\ [][(/\ writer.op = "WriteAll" /\ writer.pc # "idle" /\ writer'.pc = "idle"
           /\ ~r_open
           /\ Unwritten(writer) > 0
           /\ ~(writer.token /\ cancel))
          => /\ writer'.ret.error = "EPIPE"
             /\ writer'.ret.bytes_written < Len(writer.all_data)
             /\ writer'.ret.bytes_written = Len(writer'.put)]_vars

\* a WriteAll has ended with EPIPE after it wrote a first chunk
C21_Witness ==
    /\ writer.op = "WriteAll" /\ writer.pc = "idle"
    /\ writer.ret.error = "EPIPE"
    /\ writer.ret.bytes_written > 0
    /\ writer.ret.bytes_written < Len(writer.all_data)
    /\ ~r_open

\* seq is made of whole buffers of distinct threads of S, one after another
RECURSIVE WholeBuffers(_, _)
WholeBuffers(seq, S) ==
    \/ seq = <<>>
    \/ \E t \in S :
          LET b == threads[t].all_data IN
          /\ b # <<>> /\ Len(b) <= Len(seq)
          /\ SubSeq(seq, 1, Len(b)) = b
          /\ WholeBuffers(SubSeq(seq, Len(b) + 1, Len(seq)), S \ {t})

\* C22: with several threads calling WriteAll on one write-end, each with a
\* buffer of at most PIPE_BUF bytes, and one ReadAll draining: every
\* WriteAll that has completed reports its full buffer length with Ok; what
\* has entered the pipe is at every moment a sequence of whole buffers of
\* distinct threads; the ReadAll loses and repeats nothing, and when it has
\* completed it has returned, with Ok, every buffer exactly once and whole.
C22_ConcurrentWriteAll ==
    /\ \A t \in Writers :
          (threads[t].op = "WriteAll" /\ threads[t].pc = "idle") =>
              /\ threads[t].ret = WriteResult(Len(threads[t].all_data), "Ok")
              /\ threads[t].put = threads[t].all_data
    /\ WholeBuffers(sent, Writers)
    /\ (reader.op = "ReadAll" /\ reader.pc # "idle") =>
          reader.result.data \o reader.data \o fifo = sent
    /\ (reader.op = "ReadAll" /\ reader.pc = "idle") =>
          /\ reader.ret = ReadResult(sent, "Ok")
          /\ \A t \in Writers : threads[t].put = threads[t].all_data
          /\ \A t \in Writers : \A j \in 1..Len(threads[t].all_data) :
                \E k \in 1..Len(sent) : sent[k] = threads[t].all_data[j]

\* two threads have each written a buffer of PIPE_BUF bytes, more together
\* than the pipe holds, and the ReadAll has returned them, the buffer of
\* the last thread first
C22_Witness ==
    /\ \A t \in {1, MaxWriters} :
          /\ threads[t].op = "WriteAll" /\ threads[t].pc = "idle"
          /\ threads[t].ret = WriteResult(BUF_SIZE, "Ok")
    /\ reader.op = "ReadAll" /\ reader.pc = "idle"
    /\ Len(reader.ret.data) >= 2 * BUF_SIZE
    /\ SubSeq(reader.ret.data, 1, BUF_SIZE) = threads[MaxWriters].all_data

\* C23: Read retries read(2) after EINTR while the EINTR results of this call
\* number at most EINTR_RETRY_LIMIT; the EINTR after that ends the call,
\* which returns error EINTR with the bytes read so far.  The reader makes
\* one call, so the EINTR results it has seen are the signals used up.
C23_ReadRetriesEINTR ==
    [][(reader.op = "Read" /\ reader.pc = "Read" /\ signals' = signals - 1) =>
          /\ reader.eintr_cnt = (EINTR_RETRY_LIMIT + 1) - signals
          /\ IF reader.eintr_cnt + 1 <= EINTR_RETRY_LIMIT
             THEN /\ reader'.pc = "Read"
                  /\ reader'.eintr_cnt = reader.eintr_cnt + 1
                  /\ reader'.data = reader.data
                  /\ reader'.size = reader.size
                  /\ fifo' = fifo
             ELSE /\ reader'.pc = "idle"
                  /\ reader'.ret = ReadResult(reader.got, "EINTR")
                  /\ fifo' = fifo]_vars

\* a Read that read a byte, was interrupted more often than the limit, and
\* returned the byte with EINTR
C23_Witness ==
    /\ reader.op = "Read" /\ reader.pc = "idle"
    /\ reader.ret.error = "EINTR"
    /\ reader.ret.data # <<>>
    /\ reader.ret.data = reader.got
    /\ signals = 0

\* C24: Write retries write(2) after EINTR while the EINTR results of this
\* call number at most EINTR_RETRY_LIMIT, and only the EINTR after that ends
\* the call with error EINTR and the count written so far; so one EINTR
\* followed by a write(2) that succeeds ends in Ok with the full size.
C24_WriteRetriesEINTR ==
    [][(writer.op = "Write" /\ writer.pc = "Write" /\ signals' = signals - 1) =>
          IF writer.eintr_cnt + 1 <= EINTR_RETRY_LIMIT
          THEN /\ writer'.pc = "Write"
               /\ writer'.eintr_cnt = writer.eintr_cnt + 1
               /\ writer'.total_bytes = writer.total_bytes
          ELSE /\ writer'.pc = "idle"
               /\ writer'.ret = WriteResult(writer.total_bytes, "EINTR")]_vars

\* C25: when read(2) returns 0, the write-ends being closed and the pipe
\* drained, Read returns Eof with exactly the bytes it read earlier in the
\* call; Eof is never reported while the pipe holds bytes or can get more.
C25_ReadEof ==
    [][/\ (reader.op = "Read" /\ reader.pc = "Read" /\ fifo = <<>> /\ ~w_open
           /\ signals' = signals /\ reader' # reader) =>
              /\ reader'.pc = "idle"
              /\ reader'.ret = ReadResult(reader.got, "Eof")
       /\ (reader'.op = "Read" /\ reader'.pc = "idle"
           /\ reader'.ret.error = "Eof") =>
              /\ fifo' = <<>> /\ ~w_open'
              /\ reader'.ret.data = reader'.got]_vars

\* a Read that got part of what it asked for before the end of file
C25_Witness ==
    /\ reader.op = "Read" /\ reader.pc = "idle"
    /\ reader.ret.error = "Eof"
    /\ reader.ret.data # <<>>
    /\ reader.ret.data = sent

\* C26: a short read.  When the pipe holds k bytes, 0 < k < size, and the
\* write-end stays open, Read(size) returns those k bytes with error Ok.
C26_ShortReadOk ==
    (/\ reader.op = "Read" /\ reader.pc = "idle"
     /\ reader.got # <<>> /\ w_open
     /\ signals = EINTR_RETRY_LIMIT + 1) =>
        reader.ret = ReadResult(reader.got, "Ok")

\* C27: when a Read inside ReadAll ends with an error that is not transient,
\* ReadAll returns at once with that error and with every byte it has taken
\* out of the pipe, those of the failing Read included.
C27_ReadAllKeepsConsumed ==
    (/\ reader.op = "ReadAll" /\ reader.pc = "idle"
     /\ reader.ret.error \notin {"Ok", "Eof"}) =>
        /\ reader.ret.error \notin Transient
        /\ reader.ret.data = reader.got

\* the bytes w has placed in the pipe are data[offset .. offset + k), in
\* order, for some k
SliceWritten(w) ==
    \A j \in 1..Len(w.put) :
        /\ w.all_offset + j <= Len(w.all_data)
        /\ w.put[j] = w.all_data[w.all_offset + j]

\* C28: every Write issued by WriteAll has a size of at most BUF_SIZE, and
\* the chunks written are consecutive slices of data that start at offset,
\* in increasing order and without overlap.
C28_WriteAllChunks ==
    writer.op = "WriteAll" =>
        /\ writer.pc = "Write" =>
              /\ writer.size \in 1..BUF_SIZE
              /\ writer.offset = writer.all_offset + writer.result.bytes_written
        /\ SliceWritten(writer)

\* the bytes of data from offset on
FromOffset(w) ==
    IF w.all_offset <= Len(w.all_data) THEN Len(w.all_data) - w.all_offset ELSE 0

\* C29: the bytes_written WriteAll reports is the number of bytes it placed
\* in the pipe, whether it finished, was cancelled or stopped on an error:
\* between chunks and at the return the count equals what was placed and no
\* byte was placed twice; when it ends with Ok without having been
\* cancelled, the count is the length of data minus offset.
C29_WriteAllCount ==
    writer.op = "WriteAll" =>
        /\ writer.pc \in {"WriteAll", "wsleep"} =>
              writer.result.bytes_written = Len(writer.put)
        /\ \A i, j \in 1..Len(writer.put) :
              i # j => writer.put[i] # writer.put[j]
        /\ writer.pc = "idle" =>
              /\ writer.ret.bytes_written = Len(writer.put)
              /\ (writer.ret.error = "Ok" /\ ~(writer.token /\ cancel)) =>
                    writer.ret.bytes_written = FromOffset(writer)

\* C30: mutual exclusion per endpoint.  At most one thread is inside
\* write(2) on the write-end and at most one inside read(2) on the read-end;
\* the mutex of an endpoint is held by thread t exactly while t is inside
\* its syscall, so it is free between the iterations of Write and Read and
\* the syscalls on one endpoint are totally ordered.
C30_MutualExclusion ==
    /\ \A t, u \in Writers :
          (threads[t].pc = "write(2)" /\ threads[u].pc = "write(2)") => t = u
    /\ mutex \in Writers \cup {0}
    /\ \A t \in Writers : (mutex = t) <=> (threads[t].pc = "write(2)")
    /\ \A t, u \in Readers :
          (rd_threads[t].pc = "read(2)" /\ rd_threads[u].pc = "read(2)") => t = u
    /\ rd_mutex \in Readers \cup {0}
    /\ \A t \in Readers : (rd_mutex = t) <=> (rd_threads[t].pc = "read(2)")

\* one thread is inside write(2) while another, between two iterations of
\* its Write, waits for the mutex
C30_Witness ==
    /\ threads[1].pc = "write(2)" /\ mutex = 1
    /\ threads[MaxWriters].pc = "Write"
    /\ threads[MaxWriters].total_bytes > 0

----------------------------------------------------------------------------
(* PipeOwner: the descriptor an endpoint owns, from construction to close *)

outside_owner == <<controller_vars, ctor_vars, pipe_vars>>

\* the descriptor pipe(2) returned for endpoint e
Descriptor(e) == IF e = "read_pipe" THEN 0 ELSE 1

\* the descriptors a caller hands to PipeOwner(int fd): the one of the pipe,
\* and -1
FdArguments(e) == {Descriptor(e), -1}

\* close(2) on descriptor n: what it closed, EBADF when n is not open
close_result(n) ==
    IF n \in Descriptors /\ open_files[n] # "free" THEN open_files[n] ELSE "EBADF"

\* auto_close::operator(), pipe.h:79-84, run on the pointer p of endpoint e
auto_close(e, p) ==
    IF p # <<>> /\ p[1] # -1
    THEN /\ closed' = [closed EXCEPT ![e] = Append(@, close_result(p[1]))]
         /\ open_files' = [n \in Descriptors |->
                              IF n = p[1] THEN "free" ELSE open_files[n]]
    ELSE /\ closed' = closed
         /\ open_files' = open_files

\* fcntl(fd, F_GETFL) fails on a descriptor that is not open
getfl_fails(fd) == fd \notin Descriptors \/ open_files[fd] = "free"

\* std::make_unique<IPipeImpl / OPipeImpl>(fd) into handle 1: PipeOwner's
\* constructor, pipe.cpp:11-17.  fd_ is initialised first; when an fcntl
\* fails the constructor throws and the member fd_ is destroyed.
PipeOwnerCtor(e, fd, setfl_fails) ==
    /\ owner[e] = "none"
    /\ IF getfl_fails(fd) \/ setfl_fails
       THEN /\ auto_close(e, <<fd>>)
            /\ owner' = [owner EXCEPT
                            ![e] = IF getfl_fails(fd) THEN "bad_fd" ELSE "failed"]
            /\ UNCHANGED <<fd_, handle>>
       ELSE /\ owner' = [owner EXCEPT ![e] = "alive"]
            /\ fd_' = [fd_ EXCEPT ![e] = <<fd>>]
            /\ handle' = [handle EXCEPT ![e][1] = "owns"]
            /\ UNCHANGED <<closed, open_files>>
    /\ UNCHANGED outside_owner

\* the handle of endpoint e is moved from h to g: the endpoint itself stays
\* where it is
MoveHandle(e, h, g) ==
    /\ handle[e][h] = "owns" /\ handle[e][g] = "null" /\ h # g
    /\ handle' = [handle EXCEPT ![e][h] = "null", ![e][g] = "owns"]
    /\ UNCHANGED <<owner, fd_, open_files, closed>>
    /\ UNCHANGED outside_owner

\* the end of a handle as it would be if the endpoint kept its descriptor
\* in a plain int that a move leaves in the moved-from object
DestroyHandle_PlainInt(e, h) ==
    /\ owner[e] \in {"alive", "gone"}
    /\ handle[e][h] # "destroyed"
    /\ handle' = [handle EXCEPT ![e][h] = "destroyed"]
    /\ auto_close(e, <<Descriptor(e)>>)
    /\ owner' = [owner EXCEPT ![e] = IF handle[e][h] = "owns" THEN "gone" ELSE @]
    /\ fd_' = [fd_ EXCEPT ![e] = IF handle[e][h] = "owns" THEN <<>> ELSE @]
    /\ UNCHANGED outside_owner

\* handle h of endpoint e is reset or goes out of scope; when it owns the
\* endpoint, ~PipeOwner runs and destroys fd_
DestroyHandle(e, h) ==
    /\ owner[e] \in {"alive", "gone"}
    /\ handle[e][h] # "destroyed"
    /\ handle' = [handle EXCEPT ![e][h] = "destroyed"]
    /\ IF handle[e][h] = "owns"
       THEN /\ auto_close(e, fd_[e])
            /\ owner' = [owner EXCEPT ![e] = "gone"]
            /\ fd_' = [fd_ EXCEPT ![e] = <<>>]
       ELSE UNCHANGED <<owner, fd_, open_files, closed>>
    /\ UNCHANGED outside_owner

\* another part of the process opens a file: it gets the lowest free number
OtherOpen ==
    /\ \E n \in Descriptors :
          /\ open_files[n] = "free"
          /\ \A k \in Descriptors : k < n => open_files[k] # "free"
          /\ open_files' = [open_files EXCEPT ![n] = "other"]
    /\ UNCHANGED <<owner, fd_, closed, handle>>
    /\ UNCHANGED outside_owner

\* after pipe(fds): both descriptors open, no endpoint constructed yet
OwnerInit ==
    /\ NoController
    /\ CtorIdle
    /\ PipeIdle
    /\ owner = [e \in Ends |-> "none"]
    /\ fd_ = [e \in Ends |-> <<>>]
    /\ open_files = [n \in Descriptors |->
                        IF n = Descriptor("read_pipe") THEN "read_pipe" ELSE "write_pipe"]
    /\ closed = [e \in Ends |-> <<>>]
    /\ handle = [e \in Ends |-> [h \in Handles |-> "null"]]

OwnerNext ==
    \/ \E e \in Ends : \E fd \in FdArguments(e), setfl_fails \in BOOLEAN :
          PipeOwnerCtor(e, fd, setfl_fails)
    \/ \E e \in Ends, h \in Handles, g \in Handles : MoveHandle(e, h, g)
    \/ \E e \in Ends, h \in Handles : DestroyHandle(e, h)
    \/ OtherOpen

OwnerSpec == OwnerInit /\ [][OwnerNext]_vars

----------------------------------------------------------------------------
(* Claims C31-C40 *)

\* C31: every pipe endpoint closes its descriptor exactly once.  While the
\* endpoint is alive its descriptor is open and the endpoint has closed
\* nothing; once it is destroyed, or its construction has failed while
\* setting the non-blocking flag, it has made one close(2) call, which closed
\* its own end of the pipe; moving the handle of the endpoint changes none
\* of this.
C31_ClosedExactlyOnce ==
    \A e \in Ends :
        /\ owner[e] = "alive" =>
              /\ closed[e] = <<>>
              /\ fd_[e] = <<Descriptor(e)>>
              /\ open_files[Descriptor(e)] = e
              /\ \E h \in Handles : handle[e][h] = "owns"
        /\ owner[e] \in {"gone", "failed"} =>
              /\ closed[e] = <<e>>
              /\ fd_[e] = <<>>
        /\ owner[e] \in {"none", "bad_fd"} => closed[e] = <<>>

\* the write-end was moved to a second handle and destroyed through it, the
\* moved-from handle was destroyed too, and the number of the descriptor is
\* in use again; the construction of the read-end failed in F_SETFL
C31_Witness ==
    /\ owner["write_pipe"] = "gone"
    /\ handle["write_pipe"] = [h \in Handles |-> "destroyed"]
    /\ closed["write_pipe"] = <<"write_pipe">>
    /\ open_files[Descriptor("write_pipe")] = "other"
    /\ owner["read_pipe"] = "failed"
    /\ closed["read_pipe"] = <<"read_pipe">>

\* the ends the parent is to keep: the write-end of the stdin pipe, the
\* read-ends of the stdout and stderr pipes
Retained ==
    {<<ch, IF ch = "in" THEN "pipe_writer" ELSE "pipe_reader">> :
        ch \in {c \in {"in", "out", "err"} : ctor_args[c][1] = "PIPE"}}

\* some process holds the write-end of the pipe of channel ch open, so that
\* a read on the drained pipe does not return end-of-file
WriteEndOpen(ch) ==
    \/ <<ch, "pipe_writer">> \in parent_fds
    \/ \E x \in child_fds : x[2] = <<ch, "pipe_writer">>

\* C32: after a successful construction the parent holds exactly the ends
\* it retains (the write-end of the stdin pipe, the read-ends of the output
\* pipes), having closed the opposite ends and every file and /dev/null
\* endpoint; and once the child has exited no write-end of an output pipe
\* is open, so the parent's reader of a drained pipe observes end-of-file.
C32_ParentKeepsRetainedEnds ==
    (ctor_pc = "done" /\ ctor_ret = "constructed") =>
        /\ parent_fds = Retained
        /\ child_fds = {} => \A ch \in Channels : ~WriteEndOpen(ch)

\* a child spawned with pipes for stdin and stdout and a file for stderr
\* has exited; the parent holds the stdin write-end and the stdout read-end
C32_Witness ==
    /\ ctor_pc = "done" /\ ctor_ret = "constructed"
    /\ ctor_args.in = <<"PIPE", FALSE>>
    /\ ctor_args.out = <<"PIPE", FALSE>>
    /\ ctor_args.err = <<"FILE", TRUE>>
    /\ child_fds = {}
    /\ parent_fds = {<<"in", "pipe_writer">>, <<"out", "pipe_reader">>}

----------------------------------------------------------------------------
(* The destructor under failing syscalls *)

\* the syscalls the controller issues on the pid of its child
Syscalls == {"wait4", "kill"}

\* the operating system starts or stops failing syscalls on the pid: the
\* child was reaped elsewhere (ECHILD, ESRCH), or may not be signalled (EPERM)
OsFault(S) ==
    /\ S # os_fails
    /\ os_fails' = S
    /\ UNCHANGED <<popen_vars, kernel_vars, worker_vars, main_vars, obs_vars>>
    /\ UNCHANGED <<budget, ctor_vars, pipe_vars, owner_vars>>

\* a freshly constructed controller whose caller issues at most one API
\* call before the controller is destroyed
DtorInit ==
    /\ Constructed
    /\ budget = 1
    /\ os_fails = {}
    /\ CtorIdle
    /\ PipeIdle
    /\ OwnerIdle

DtorNext ==
    \/ LifeNext
    \/ \E S \in SUBSET Syscalls : OsFault(S)

DtorSpec == DtorInit /\ [][DtorNext]_vars

\* C33 (as claimed): no exception escapes the destructor: whatever the
\* initial Poll, Terminate, the grace Wait or Kill do, the destructor never
\* ends in std::terminate.
C33_DestructorSwallows == pc # "terminate"

\* C34 (as claimed): when the destructor has completed, the child has
\* terminated and has been reaped, whether SIGTERM sufficed or the grace
\* wait timed out and SIGKILL was sent.
C34_DestructorReaps ==
    pc = "destroyed" => child = "reaped"

\* a is an initial segment of b
IsPrefix(a, b) == Len(a) <= Len(b) /\ a = SubSeq(b, 1, Len(a))

\* C35: in every state during Communicate the stdout cache is a prefix of
\* the bytes the child has written to the stdout channel and the stderr
\* cache a prefix of the bytes it has written to the stderr channel: the
\* bytes are appended in the order of delivery, none skipped or repeated.
C35_CachePrefix ==
    InCommunicate =>
        /\ IsPrefix(cache_.stdout_data, child_wrote["out"])
        /\ IsPrefix(cache_.stderr_data, child_wrote["err"])

\* during Communicate the stdout cache holds a first chunk of what the child
\* has written so far, and the stdout drainer is inside its next Read with
\* a part of the next chunk
C35_Witness ==
    /\ InCommunicate
    /\ cache_.stdout_data # NoBytes
    /\ Len(cache_.stdout_data) < Len(child_wrote["out"])
    /\ r_pc["out"] = "read" /\ r_chunk["out"] # NoBytes

\* the step is one of the stdin worker
FeederStep ==
    /\ w_pc \in {"head", "write"}
    /\ pc' = pc
    /\ <<w_pc, w_bw, w_off>>' # <<w_pc, w_bw, w_off>>

\* the step is one of the drainer of channel s
DrainerStep(s) ==
    /\ r_pc[s] \in {"head", "read"}
    /\ pc' = pc
    /\ <<r_pc[s], r_chunk[s]>>' # <<r_pc[s], r_chunk[s]>>

\* the step is the one in which the controlling thread leaves Communicate
\* with the content of the cache: the result or the Timeout is built from it
CacheRead ==
    /\ pc = "Communicate_join" /\ pc' = "idle"
    /\ ret'.kind \in {"return", "Timeout"}

\* C36: no data race on the cache of Communicate.  A step that changes
\* bytes_written is a step of the stdin worker, one that changes the stdout
\* (stderr) cache is a step of the stdout (stderr) worker, unless it is the
\* step of the controlling thread that reads and clears the cache; and the
\* controlling thread takes that step, on the normal and on the timeout
\* path, only when every worker it started has finished.
C36_NoCacheRace ==
    [][/\ cache_'.bytes_written # cache_.bytes_written => (FeederStep \/ CacheRead)
       /\ cache_'.stdout_data # cache_.stdout_data => (DrainerStep("out") \/ CacheRead)
       /\ cache_'.stderr_data # cache_.stderr_data => (DrainerStep("err") \/ CacheRead)
       /\ FeederStep => ~(DrainerStep("out") \/ DrainerStep("err"))
       /\ DrainerStep("out") => ~DrainerStep("err")
       /\ CacheRead => AllJoined]_vars

\* on the timeout path the stdin worker and the stdout worker have finished,
\* having stored a count and a chunk, and with every worker finished the
\* controlling thread is about to read them
C36_Witness ==
    /\ pc = "Communicate_join" /\ is_expired
    /\ w_pc = "done" /\ r_pc["out"] = "done" /\ AllJoined
    /\ cache_.bytes_written > 0
    /\ cache_.stdout_data # NoBytes

C38_NoWriterRejected ==
    [][(/\ pc = "idle" /\ op' = "Communicate" /\ calls' = calls + 1
        /\ input' # NoBytes /\ ~pipe_writer)
       => /\ ret' = Raised("InvalidArg")
          /\ pc' = "idle"
          /\ w_pc' = "none" /\ \A s \in Channels : r_pc'[s] = "none"
          /\ UNCHANGED <<cache_, returncode_, usage_, pipe_writer, pipe_reader, eof>>
          /\ UNCHANGED <<kernel_vars, kills, kill_after_reap, wait4_after_reap>>]_vars

\* the first Communicate wrote its input and closed the stdin writer; the
\* second, given input again, was rejected
C38_Witness ==
    /\ pc = "idle" /\ op = "Communicate" /\ calls = 2
    /\ ret = Raised("InvalidArg")
    /\ in_opt = "PIPE" /\ ~pipe_writer
    /\ input # NoBytes

\* stdout is a pipe and nothing the child wrote to it has been handed out:
\* the cache, the chunk of the Read in progress and the pipe hold between
\* them every byte
Uncleared ==
    /\ out_opt = "PIPE"
    /\ child_wrote["out"] = cache_.stdout_data \o r_chunk["out"] \o buf["out"]

\* the step in which a Communicate raises Timeout
TimeoutStep == pc = "Communicate_join" /\ pc' = "idle" /\ ret'.kind = "Timeout"

\* the step in which a Communicate returns normally
ReturnStep == pc = "Communicate_join" /\ pc' = "idle" /\ ret'.kind = "return"

C40_WriteAllOffsetPastEnd ==
    (writer.op = "WriteAll" /\ writer.all_data # <<>>) =>
        /\ writer.all_offset > Len(writer.all_data) =>
              /\ writer.put = <<>>
              /\ writer.pc = "idle" => writer.ret = WriteResult(0, "InvalidArg")
        /\ writer.all_offset = Len(writer.all_data) =>
              /\ writer.put = <<>>
              /\ writer.pc = "idle" => writer.ret = WriteResult(0, "Ok")

====
